---- MODULE Spec2Model ----
(***************************************************************************)
(* Practice-mode engine of the piano practice application                  *)
(* (usePracticeMode hook): step builder, discrete / continuous step        *)
(* machine, flowing matcher, session log, timers and animation ticks.      *)
(*                                                                         *)
(* All times are integers in milliseconds (the source keeps seconds as     *)
(* floating point numbers; 0.03 s is 30, 0.5 s is 500 and so on).          *)
(* Reference notes and steps are indexed from 0 as in the source, so the   *)
(* note with index i is flowingAllNotesRef[i + 1].                         *)
(***************************************************************************)
EXTENDS Integers, Sequences, FiniteSets, TLC

\* ---------------------------------------------------------------- bounds
\* Wall-clock frames the model lets pass, pending 800 ms timers, log length
\* reached by key presses.
MaxFrames == 6
MaxTimers == 1
MaxLog == 2
MaxSessions == 1
\* Parts of a millisecond the practice clock is read in.
SubMs == 2

\* One wall-clock frame of the model, in ms.
Frame == 1000 \div 2
MaxNow == MaxFrames * Frame

\* ------------------------------------------------------ program constants
CHORD_TOLERANCE_MS == 30
OVER_HOLD_NUM == 3
OVER_HOLD_DEN == 2
MIN_EFFECTIVE_DURATION_MS == 300
FLOWING_PERFECT_MS == 50
FLOWING_GREAT_MS == 150
FLOWING_OKAY_MS == 300
FLOWING_MATCH_WINDOW_MS == 500
WRONG_NOTE_CLEAR_MS == 800
SKIP_TIMER_MS == 3000
FLOWING_LEAD_IN_MS == 2000
FLOWING_TAIL_MS == 1000
\* playbackSpeed = 1 when the host passes none, as a percentage
DEFAULT_SPEED == 100
NOTE_ON == 144
NOTE_OFF == 128

\* null / undefined of the source
NoNote == 0 - 1
NoTimer == 0 - 1
NoError == "null"
NoDevice == "null"
Devices == { "d1", "d2" }
Undefined == <<>>

PracticeModes == {"discrete", "continuous", "flowing"}

\* ------------------------------------------------------------ input data
Note(m, t, d) == [midi |-> m, time |-> t, duration |-> d]

\* Scores handed out by getAllNotes(), in track order (not time order).
\* Two steps of different pitch (scenario A of the specification).
ScoreTwoSteps == << Note(60, 0, 500), Note(64, 1000, 500) >>
\* The same pitch in two consecutive steps.
ScoreRepeated == << Note(60, 0, 500), Note(60, 1000, 500) >>
\* A note of step 0 still sounding at step 1, and its pitch struck again at
\* step 2 (second track first).
ScoreSustained ==
  << Note(64, 500, 500), Note(60, 1000, 500), Note(60, 0, 700) >>

Scores == { <<>>, ScoreTwoSteps, ScoreRepeated }

\* One note late enough to be played early.
ScoreLate == << Note(60, 1000, 500) >>

\* The same pitch twice, 300 ms apart: both notes can be in the window.
ScoreClose == << Note(60, 1000, 200), Note(60, 1300, 200) >>

\* A long note under a short one: the note that starts last ends first.
ScoreOverlap == << Note(60, 0, 1500), Note(64, 500, 500) >>

\* Pitches the keyboard can send.
Pitches == {60, 64}
Velocities == {0, 100}

Max(a, b) == IF a >= b THEN a ELSE b
Abs(x) == IF x >= 0 THEN x ELSE 0 - x

VARIABLES
  now,                    \* performance.now()
  frameDue,               \* TRUE: a frame has passed that the browser has not rendered yet
  allNotes,               \* what getAllNotes() returns
  practiceModeRef, statusRef, stepsRef, stepIndexRef, currentStepIndex,
  satisfiedRef, sessionLogRef, heldNotesRef,
  rearticNeededRef, practiceTimeRef,
  sustainAnimRef,         \* TRUE: a sustain tick is requested and not cancelled
  sustainBaseWallRef, sustainBasePracticeRef, audioPlayedRef,
  skipTimerRef,           \* due time of the pending 3 s timeout, or NoTimer
  showSkipButton,
  flowingAnimRef,         \* TRUE: a flowing tick is requested and not cancelled
  flowingStartWallRef, flowingStartOffsetRef, flowingAllNotesRef,
  flowingMatchedRef, flowingMissedRef, flowingEndTimeRef,
  wrongNote,
  wrongTimers,            \* pending 800 ms timeouts, oldest first
  error,
  modeChanged,            \* history: setPracticeMode changed the mode since start()
  sessions,               \* history: number of sessions start() has created
  specReartic,            \* history: pitches of the current step that were required by
                          \* the previous step and have had no note-on since entry
  freeRide,               \* history: the latest satisfaction of a step happened while
                          \* specReartic was not empty
  midiDevices,            \* connected input devices (ids)
  activeDevice,           \* selected device id, or NoDevice
  listeners,              \* devices whose onmidimessage is the handler
  keysDown,               \* history: pitches whose last device message was a note-on
  stuckSince,             \* history: when the engine last came to rest on the current step
  clockFrac,              \* part of the practice clock below one millisecond, in 1/SubMs ms
  cues,                    \* history: per step, how often satisfaction has fired its audio cue
  playbackSpeedRef  \* playback-speed multiplier the host passes in, in percent

vars == << now, frameDue, allNotes, practiceModeRef, statusRef, stepsRef, stepIndexRef,
           currentStepIndex, satisfiedRef, sessionLogRef,
           heldNotesRef, rearticNeededRef, practiceTimeRef, sustainAnimRef,
           sustainBaseWallRef, sustainBasePracticeRef, audioPlayedRef,
           skipTimerRef, showSkipButton, flowingAnimRef, flowingStartWallRef,
           flowingStartOffsetRef, flowingAllNotesRef, flowingMatchedRef,
           flowingMissedRef, flowingEndTimeRef, wrongNote, wrongTimers, error,
           modeChanged, sessions, specReartic, freeRide,
           midiDevices,
           activeDevice,
           listeners,
           keysDown,
           stuckSince, clockFrac,
           cues,
           playbackSpeedRef >>

\* The engine state as one record; handlers are functions from record to record.
Cur ==
  [ now |-> now, frameDue |-> frameDue, allNotes |-> allNotes, practiceModeRef |-> practiceModeRef,
    statusRef |-> statusRef, stepsRef |-> stepsRef, stepIndexRef |-> stepIndexRef,
    currentStepIndex |-> currentStepIndex, satisfiedRef |-> satisfiedRef,
    sessionLogRef |-> sessionLogRef,
    heldNotesRef |-> heldNotesRef, rearticNeededRef |-> rearticNeededRef,
    practiceTimeRef |-> practiceTimeRef, sustainAnimRef |-> sustainAnimRef,
    sustainBaseWallRef |-> sustainBaseWallRef,
    sustainBasePracticeRef |-> sustainBasePracticeRef,
    audioPlayedRef |-> audioPlayedRef, skipTimerRef |-> skipTimerRef,
    showSkipButton |-> showSkipButton, flowingAnimRef |-> flowingAnimRef,
    flowingStartWallRef |-> flowingStartWallRef,
    flowingStartOffsetRef |-> flowingStartOffsetRef,
    flowingAllNotesRef |-> flowingAllNotesRef,
    flowingMatchedRef |-> flowingMatchedRef,
    flowingMissedRef |-> flowingMissedRef,
    flowingEndTimeRef |-> flowingEndTimeRef, wrongNote |-> wrongNote,
    wrongTimers |-> wrongTimers, error |-> error, modeChanged |-> modeChanged,
    sessions |-> sessions, specReartic |-> specReartic, freeRide |-> freeRide,
    midiDevices |-> midiDevices,
    activeDevice |-> activeDevice,
    listeners |-> listeners,
    keysDown |-> keysDown,
    stuckSince |-> stuckSince,
    clockFrac |-> clockFrac,
    cues |-> cues,
    playbackSpeedRef |-> playbackSpeedRef ]

\* The engine rests on a step: the step is shown and waits for its pitches.
stuckOnStep(s) ==
  /\ s.statusRef \in {"playing", "waiting"}
  /\ s.stepIndexRef < Len(s.stepsRef)

Install(s) ==
  /\ now' = s.now
  /\ frameDue' = s.frameDue
  /\ allNotes' = s.allNotes
  /\ practiceModeRef' = s.practiceModeRef
  /\ statusRef' = s.statusRef
  /\ stepsRef' = s.stepsRef
  /\ stepIndexRef' = s.stepIndexRef
  /\ currentStepIndex' = s.currentStepIndex
  /\ satisfiedRef' = s.satisfiedRef
  /\ sessionLogRef' = s.sessionLogRef
  /\ heldNotesRef' = s.heldNotesRef
  /\ rearticNeededRef' = s.rearticNeededRef
  /\ practiceTimeRef' = s.practiceTimeRef
  /\ sustainAnimRef' = s.sustainAnimRef
  /\ sustainBaseWallRef' = s.sustainBaseWallRef
  /\ sustainBasePracticeRef' = s.sustainBasePracticeRef
  /\ audioPlayedRef' = s.audioPlayedRef
  /\ skipTimerRef' = s.skipTimerRef
  /\ showSkipButton' = s.showSkipButton
  /\ flowingAnimRef' = s.flowingAnimRef
  /\ flowingStartWallRef' = s.flowingStartWallRef
  /\ flowingStartOffsetRef' = s.flowingStartOffsetRef
  /\ flowingAllNotesRef' = s.flowingAllNotesRef
  /\ flowingMatchedRef' = s.flowingMatchedRef
  /\ flowingMissedRef' = s.flowingMissedRef
  /\ flowingEndTimeRef' = s.flowingEndTimeRef
  /\ wrongNote' = s.wrongNote
  /\ wrongTimers' = s.wrongTimers
  /\ error' = s.error
  /\ modeChanged' = s.modeChanged
  /\ sessions' = s.sessions
  /\ specReartic' = s.specReartic
  /\ freeRide' = s.freeRide
  /\ midiDevices' = s.midiDevices
  /\ activeDevice' = s.activeDevice
  /\ listeners' = s.listeners
  /\ keysDown' = s.keysDown
  /\ stuckSince' = IF /\ stuckOnStep(Cur) /\ stuckOnStep(s)
                      /\ s.stepIndexRef = stepIndexRef
                      /\ s.stepsRef = stepsRef
                      /\ s.sessions = sessions
                   THEN stuckSince
                   ELSE s.now
  /\ clockFrac' = s.clockFrac
  /\ cues' = s.cues
  /\ playbackSpeedRef' = s.playbackSpeedRef

\* ---------------------------------------------------------- step builder
\* Comparator of the two sorts: by time, then (step builder only) by pitch.
Before(a, b, byMidi) ==
  \/ a.time < b.time
  \/ (byMidi /\ a.time = b.time /\ a.midi < b.midi)

RECURSIVE InsertSorted(_, _, _)
InsertSorted(s, x, byMidi) ==
  IF s = <<>> THEN << x >>
  ELSE IF Before(x, Head(s), byMidi) THEN << x >> \o s
  ELSE << Head(s) >> \o InsertSorted(Tail(s), x, byMidi)

\* Array.prototype.sort is stable.
RECURSIVE SortNotes(_, _)
SortNotes(s, byMidi) ==
  IF s = <<>> THEN <<>>
  ELSE InsertSorted(SortNotes(SubSeq(s, 1, Len(s) - 1), byMidi), s[Len(s)], byMidi)

RECURSIVE MaxDurationOf(_)
MaxDurationOf(group) ==
  IF Len(group) = 1 THEN group[1].duration
  ELSE Max(group[1].duration, MaxDurationOf(Tail(group)))

MakeStep(idx, groupTime, currentGroup) ==
  [ index |-> idx, time |-> groupTime,
    midis |-> { currentGroup[i].midi : i \in 1..Len(currentGroup) },
    requiredMidis |-> {},
    notes |-> currentGroup,
    maxDuration |-> MaxDurationOf(currentGroup) ]

\* Two mutations of the builder.
RECURSIVE GroupSteps_chained(_, _, _, _, _)
GroupSteps_chained(sorted, i, steps, currentGroup, groupTime) ==
  IF i > Len(sorted)
  THEN Append(steps, MakeStep(Len(steps), groupTime, currentGroup))
  ELSE IF sorted[i].time - sorted[i - 1].time <= CHORD_TOLERANCE_MS
  THEN GroupSteps_chained(sorted, i + 1, steps, Append(currentGroup, sorted[i]), groupTime)
  ELSE GroupSteps_chained(sorted, i + 1,
                  Append(steps, MakeStep(Len(steps), groupTime, currentGroup)),
                  << sorted[i] >>, sorted[i].time)

RequiredOf_allEarlier(step, sorted) ==
  step.midis \cup
  { sorted[j].midi : j \in { k \in 1..Len(sorted) :
        ~(sorted[k].time >= step.time - CHORD_TOLERANCE_MS) } }

RECURSIVE GroupSteps(_, _, _, _, _)
GroupSteps(sorted, i, steps, currentGroup, groupTime) ==
  IF i > Len(sorted)
  THEN Append(steps, MakeStep(Len(steps), groupTime, currentGroup))
  ELSE IF sorted[i].time - groupTime <= CHORD_TOLERANCE_MS
  THEN GroupSteps(sorted, i + 1, steps, Append(currentGroup, sorted[i]), groupTime)
  ELSE GroupSteps(sorted, i + 1,
                  Append(steps, MakeStep(Len(steps), groupTime, currentGroup)),
                  << sorted[i] >>, sorted[i].time)

RequiredOf(step, sorted) ==
  step.midis \cup
  { sorted[j].midi : j \in { k \in 1..Len(sorted) :
        /\ ~(sorted[k].time >= step.time - CHORD_TOLERANCE_MS)
        /\ sorted[k].time + sorted[k].duration > step.time + CHORD_TOLERANCE_MS } }

buildSteps(notes) ==
  IF Len(notes) = 0 THEN <<>>
  ELSE LET sorted == SortNotes(notes, TRUE)
           steps == GroupSteps(sorted, 2, <<>>, << sorted[1] >>, sorted[1].time)
       IN [ i \in 1..Len(steps) |->
              [ steps[i] EXCEPT !.requiredMidis = RequiredOf(steps[i], sorted) ] ]

\* Times below one millisecond: the clock is a float, in the model a whole
\* number of milliseconds plus clockFrac parts of SubMs.  toSub(ms) is a
\* millisecond value on that finer scale.
toSub(ms) == ms * SubMs

rateTimingOffset_exclusive(absMs) ==
  IF absMs < toSub(FLOWING_PERFECT_MS) THEN "perfect"
  ELSE IF absMs < toSub(FLOWING_GREAT_MS) THEN "great"
  ELSE IF absMs < toSub(FLOWING_OKAY_MS) THEN "okay"
  ELSE "poor"

\* absMs on the finer scale.
rateTimingOffset(absMs) ==
  IF absMs <= toSub(FLOWING_PERFECT_MS) THEN "perfect"
  ELSE IF absMs <= toSub(FLOWING_GREAT_MS) THEN "great"
  ELSE IF absMs <= toSub(FLOWING_OKAY_MS) THEN "okay"
  ELSE "poor"

\* Math.round of a value on the finer scale: the nearest whole millisecond,
\* a half rounding up.
MathRound(x) == (2 * x + SubMs) \div (2 * SubMs)

\* practiceTimeRef.current on the finer scale.
clockOf(s) == toSub(s.practiceTimeRef) + s.clockFrac


\* ------------------------------------------------------------ session log
\* The timestamp field (wall-clock time since start()) is left out: nothing
\* in the engine reads it back.
Entry(stepIndex, expectedMidis, playedMidi, correct, offset, rating) ==
  [ stepIndex |-> stepIndex, expectedMidis |-> expectedMidis,
    playedMidi |-> playedMidi, correct |-> correct,
    timingOffsetMs |-> offset, rating |-> rating ]

MissEntry(s, i) ==
  Entry(i, { s.flowingAllNotesRef[i + 1].midi }, 0, FALSE, Undefined, "miss")

\* ------------------------------------------------------------- skip timer
resetSkipTimer(s) ==
  [ s EXCEPT !.skipTimerRef = NoTimer, !.showSkipButton = FALSE ]

startSkipTimer(s) ==
  [ resetSkipTimer(s) EXCEPT !.skipTimerRef = s.now + SKIP_TIMER_MS ]

\* cancelAnimationFrame + requestAnimationFrame(tick)
startSustainLoop(s) == [ s EXCEPT !.sustainAnimRef = TRUE ]

startFlowingLoop(s) == [ s EXCEPT !.flowingAnimRef = TRUE ]

rearticOf_none(s, idx) == {}

\* Pitches of the entered step that must be pressed again.
rearticOf(s, idx) ==
  IF s.practiceModeRef = "continuous" /\ idx > 0
  THEN s.stepsRef[idx + 1].midis \cap s.stepsRef[idx].midis
  ELSE {}

requiredOfStep(s, idx) ==
  IF s.practiceModeRef = "continuous"
  THEN s.stepsRef[idx + 1].requiredMidis
  ELSE s.stepsRef[idx + 1].midis

\* playStepAudioInline(step) as called on satisfaction of the step.
playStepAudioInline(s, idx) == [ s EXCEPT !.cues[idx + 1] = @ + 1 ]

goToStep(s, idx) ==
  LET s1 == [ s EXCEPT !.sustainAnimRef = FALSE, !.stepIndexRef = idx,
                       !.currentStepIndex = idx ]
  IN IF idx >= Len(s.stepsRef)
     THEN [ s1 EXCEPT !.statusRef = "complete" ]
     ELSE
       LET step == s.stepsRef[idx + 1]
           isContinuous == s.practiceModeRef = "continuous"
           required == requiredOfStep(s, idx)
           reartic == rearticOf(s, idx)
           shared == IF idx > 0
                     THEN step.midis \cap requiredOfStep(s, idx - 1)
                     ELSE {}
           s2 == [ s1 EXCEPT !.clockFrac = 0, !.practiceTimeRef = step.time, !.satisfiedRef = {},
                             !.wrongNote = NoNote, !.audioPlayedRef = FALSE,
                             !.rearticNeededRef = reartic,
                             !.specReartic = shared ]
           allHeld == \A m \in required : m \in s.heldNotesRef /\ m \notin reartic
       IN IF isContinuous /\ allHeld
          THEN startSustainLoop(
                 [ playStepAudioInline(resetSkipTimer(s2), idx) EXCEPT
                     !.satisfiedRef = required, !.audioPlayedRef = TRUE,
                     !.sustainBaseWallRef = s.now,
                     !.sustainBasePracticeRef = step.time,
                     !.statusRef = "sustaining",
                     !.freeRide = (shared # {}) ])
          ELSE startSkipTimer([ s2 EXCEPT !.statusRef = "playing" ])

checkAndResume_cuesAgain(s) ==
  IF s.statusRef \notin {"waiting", "playing"} THEN s
  ELSE IF s.stepIndexRef >= Len(s.stepsRef) THEN s
  ELSE
    LET idx == s.stepIndexRef
        required == requiredOfStep(s, idx)
    IN IF ~(\A m \in required :
               m \in s.heldNotesRef /\ m \notin s.rearticNeededRef)
       THEN s
       ELSE
         LET cued == playStepAudioInline(s, idx)
             s1 == [ cued EXCEPT !.satisfiedRef = required, !.audioPlayedRef = TRUE,
                                 !.freeRide = (s.specReartic # {}) ]
         IN IF s.practiceModeRef = "discrete"
            THEN goToStep([ s1 EXCEPT !.wrongNote = NoNote ], idx + 1)
            ELSE startSustainLoop(
                   [ resetSkipTimer(s1) EXCEPT
                       !.sustainBaseWallRef = s.now,
                       !.sustainBasePracticeRef = s.practiceTimeRef,
                       !.wrongNote = NoNote, !.statusRef = "sustaining" ])

checkAndResume_heldOnly(s) ==
  IF s.statusRef \notin {"waiting", "playing"} THEN s
  ELSE IF s.stepIndexRef >= Len(s.stepsRef) THEN s
  ELSE
    LET idx == s.stepIndexRef
        required == requiredOfStep(s, idx)
    IN IF ~(\A m \in required :
               m \in s.heldNotesRef)
       THEN s
       ELSE
         LET cued == IF s.audioPlayedRef THEN s ELSE playStepAudioInline(s, idx)
             s1 == [ cued EXCEPT !.satisfiedRef = required, !.audioPlayedRef = TRUE,
                                 !.freeRide = (s.specReartic # {}) ]
         IN IF s.practiceModeRef = "discrete"
            THEN goToStep([ s1 EXCEPT !.wrongNote = NoNote ], idx + 1)
            ELSE startSustainLoop(
                   [ resetSkipTimer(s1) EXCEPT
                       !.sustainBaseWallRef = s.now,
                       !.sustainBasePracticeRef = s.practiceTimeRef,
                       !.wrongNote = NoNote, !.statusRef = "sustaining" ])

checkAndResume(s) ==
  IF s.statusRef \notin {"waiting", "playing"} THEN s
  ELSE IF s.stepIndexRef >= Len(s.stepsRef) THEN s
  ELSE
    LET idx == s.stepIndexRef
        required == requiredOfStep(s, idx)
    IN IF ~(\A m \in required :
               m \in s.heldNotesRef /\ m \notin s.rearticNeededRef)
       THEN s
       ELSE
         LET cued == IF s.audioPlayedRef THEN s ELSE playStepAudioInline(s, idx)
             s1 == [ cued EXCEPT !.satisfiedRef = required, !.audioPlayedRef = TRUE,
                                 !.freeRide = (s.specReartic # {}) ]
         IN IF s.practiceModeRef = "discrete"
            THEN goToStep([ s1 EXCEPT !.wrongNote = NoNote ], idx + 1)
            ELSE startSustainLoop(
                   [ resetSkipTimer(s1) EXCEPT
                       !.sustainBaseWallRef = s.now,
                       !.sustainBasePracticeRef = s.practiceTimeRef,
                       !.wrongNote = NoNote, !.statusRef = "sustaining" ])

\* -------------------------------------------------------- sustain loop tick
overHoldLimitReached(s, newTime) ==
  LET idx == s.stepIndexRef
      step == s.stepsRef[idx + 1]
      effectiveDuration == Max(MIN_EFFECTIVE_DURATION_MS, step.maxDuration)
      gapToNext == IF idx + 1 < Len(s.stepsRef)
                   THEN s.stepsRef[idx + 2].time - step.time
                   ELSE effectiveDuration
  IN OVER_HOLD_DEN * (newTime - step.time)
       >= OVER_HOLD_NUM * Max(effectiveDuration, gapToNext)

\* (wall * playbackSpeedRef.current) / 1000: wall-clock ms scaled by the
\* multiplier.
scaled(s, wall) == (wall * s.playbackSpeedRef) \div DEFAULT_SPEED

sustainNewTime(s) ==
  s.sustainBasePracticeRef + scaled(s, s.now - s.sustainBaseWallRef)

sustainTick_pastBoundary(s0) ==
  LET s == [ s0 EXCEPT !.sustainAnimRef = FALSE ]   \* the requested frame runs
      newTime == sustainNewTime(s)
      idx == s.stepIndexRef
  IN IF s.statusRef # "sustaining" THEN s
     ELSE IF idx >= Len(s.stepsRef) THEN s
     ELSE
       LET step == s.stepsRef[idx + 1]
           effectiveDuration == Max(MIN_EFFECTIVE_DURATION_MS, step.maxDuration)
           nextIdx == idx + 1
       IN IF nextIdx < Len(s.stepsRef) /\ newTime > s.stepsRef[nextIdx + 1].time
          THEN goToStep(s, nextIdx)
          ELSE IF nextIdx >= Len(s.stepsRef)
                  /\ newTime >= step.time + effectiveDuration
          THEN [ s EXCEPT !.clockFrac = 0, !.practiceTimeRef = newTime, !.statusRef = "complete",
                          !.currentStepIndex = nextIdx ]
          ELSE IF overHoldLimitReached(s, newTime)
          THEN [ s EXCEPT !.clockFrac = 0, !.practiceTimeRef = step.time, !.satisfiedRef = {},
                          !.audioPlayedRef = FALSE, !.statusRef = "playing",
                          !.wrongNote = NoNote ]
          ELSE startSustainLoop([ s EXCEPT !.clockFrac = 0, !.practiceTimeRef = newTime ])

sustainTick_noFloor(s0) ==
  LET s == [ s0 EXCEPT !.sustainAnimRef = FALSE ]   \* the requested frame runs
      newTime == sustainNewTime(s)
      idx == s.stepIndexRef
  IN IF s.statusRef # "sustaining" THEN s
     ELSE IF idx >= Len(s.stepsRef) THEN s
     ELSE
       LET step == s.stepsRef[idx + 1]
           effectiveDuration == step.maxDuration
           nextIdx == idx + 1
       IN IF nextIdx < Len(s.stepsRef) /\ newTime >= s.stepsRef[nextIdx + 1].time
          THEN goToStep(s, nextIdx)
          ELSE IF nextIdx >= Len(s.stepsRef)
                  /\ newTime >= step.time + effectiveDuration
          THEN [ s EXCEPT !.clockFrac = 0, !.practiceTimeRef = newTime, !.statusRef = "complete",
                          !.currentStepIndex = nextIdx ]
          ELSE IF overHoldLimitReached(s, newTime)
          THEN [ s EXCEPT !.clockFrac = 0, !.practiceTimeRef = step.time, !.satisfiedRef = {},
                          !.audioPlayedRef = FALSE, !.statusRef = "playing",
                          !.wrongNote = NoNote ]
          ELSE startSustainLoop([ s EXCEPT !.clockFrac = 0, !.practiceTimeRef = newTime ])

sustainTick_writesFirst(s0) ==
  LET s == [ s0 EXCEPT !.sustainAnimRef = FALSE ]   \* the requested frame runs
      newTime == sustainNewTime(s)
      idx == s.stepIndexRef
  IN IF s.statusRef # "sustaining" THEN s
     ELSE IF idx >= Len(s.stepsRef) THEN s
     ELSE
       LET step == s.stepsRef[idx + 1]
           effectiveDuration == Max(MIN_EFFECTIVE_DURATION_MS, step.maxDuration)
           nextIdx == idx + 1
       IN IF nextIdx < Len(s.stepsRef) /\ newTime >= s.stepsRef[nextIdx + 1].time
          THEN startSustainLoop([ s EXCEPT !.clockFrac = 0, !.practiceTimeRef = newTime ])
          ELSE IF nextIdx >= Len(s.stepsRef)
                  /\ newTime >= step.time + effectiveDuration
          THEN [ s EXCEPT !.clockFrac = 0, !.practiceTimeRef = newTime, !.statusRef = "complete",
                          !.currentStepIndex = nextIdx ]
          ELSE IF overHoldLimitReached(s, newTime)
          THEN [ s EXCEPT !.clockFrac = 0, !.practiceTimeRef = step.time, !.satisfiedRef = {},
                          !.audioPlayedRef = FALSE, !.statusRef = "playing",
                          !.wrongNote = NoNote ]
          ELSE startSustainLoop([ s EXCEPT !.clockFrac = 0, !.practiceTimeRef = newTime ])

sustainTick(s0) ==
  LET s == [ s0 EXCEPT !.sustainAnimRef = FALSE ]   \* the requested frame runs
      newTime == sustainNewTime(s)
      idx == s.stepIndexRef
  IN IF s.statusRef # "sustaining" THEN s
     ELSE IF idx >= Len(s.stepsRef) THEN s
     ELSE
       LET step == s.stepsRef[idx + 1]
           effectiveDuration == Max(MIN_EFFECTIVE_DURATION_MS, step.maxDuration)
           nextIdx == idx + 1
       IN IF nextIdx < Len(s.stepsRef) /\ newTime >= s.stepsRef[nextIdx + 1].time
          THEN goToStep(s, nextIdx)
          ELSE IF nextIdx >= Len(s.stepsRef)
                  /\ newTime >= step.time + effectiveDuration
          THEN [ s EXCEPT !.clockFrac = 0, !.practiceTimeRef = newTime, !.statusRef = "complete",
                          !.currentStepIndex = nextIdx ]
          ELSE IF overHoldLimitReached(s, newTime)
          THEN [ s EXCEPT !.clockFrac = 0, !.practiceTimeRef = step.time, !.satisfiedRef = {},
                          !.audioPlayedRef = FALSE, !.statusRef = "playing",
                          !.wrongNote = NoNote ]
          ELSE startSustainLoop([ s EXCEPT !.clockFrac = 0, !.practiceTimeRef = newTime ])

\* -------------------------------------------------------- flowing loop tick
\* Should the miss scan log note i at this tick?
missDue_late(s, i, newTime) ==
  s.flowingAllNotesRef[i + 1].time < newTime - 2 * FLOWING_MATCH_WINDOW_MS

missDue(s, i, newTime) ==
  s.flowingAllNotesRef[i + 1].time < newTime - FLOWING_MATCH_WINDOW_MS

logMiss_unmarked(s, i) ==
  [ s EXCEPT !.sessionLogRef = Append(@, MissEntry(s, i)) ]

logMiss_prepends(s, i) ==
  [ s EXCEPT !.flowingMissedRef = @ \cup {i},
             !.sessionLogRef = << MissEntry(s, i) >> \o @ ]

logMiss(s, i) ==
  [ s EXCEPT !.flowingMissedRef = @ \cup {i},
             !.sessionLogRef = Append(@, MissEntry(s, i)) ]

RECURSIVE missScan_stopsAtClosed(_, _, _)
missScan_stopsAtClosed(s, i, newTime) ==
  IF i >= Len(s.flowingAllNotesRef) THEN s
  ELSE IF i \in s.flowingMatchedRef \/ i \in s.flowingMissedRef
       THEN s
  ELSE LET s1 == IF missDue(s, i, newTime) THEN logMiss(s, i) ELSE s
       IN IF s.flowingAllNotesRef[i + 1].time > newTime THEN s1
          ELSE missScan_stopsAtClosed(s1, i + 1, newTime)

\* for (i = 0; i < allNotes.length; i++) { ... if (time > newTime) break; }
RECURSIVE missScan(_, _, _)
missScan(s, i, newTime) ==
  IF i >= Len(s.flowingAllNotesRef) THEN s
  ELSE IF i \in s.flowingMatchedRef \/ i \in s.flowingMissedRef
       THEN missScan(s, i + 1, newTime)
  ELSE LET s1 == IF missDue(s, i, newTime) THEN logMiss(s, i) ELSE s
       IN IF s.flowingAllNotesRef[i + 1].time > newTime THEN s1
          ELSE missScan(s1, i + 1, newTime)

RECURSIVE flushMisses(_, _)
flushMisses(s, i) ==
  IF i >= Len(s.flowingAllNotesRef) THEN s
  ELSE IF i \notin s.flowingMatchedRef /\ i \notin s.flowingMissedRef
       THEN flushMisses(logMiss(s, i), i + 1)
       ELSE flushMisses(s, i + 1)

flowingNewTime(s) ==
  s.flowingStartOffsetRef + scaled(s, s.now - s.flowingStartWallRef)

flowingTick_once(s0) ==
  LET s == [ s0 EXCEPT !.flowingAnimRef = FALSE ]   \* the requested frame runs
      newTime == flowingNewTime(s)
  IN IF s.statusRef # "flowing" THEN s
     ELSE
       LET s1 == missScan([ s EXCEPT !.clockFrac = 0, !.practiceTimeRef = newTime ], 0, newTime)
       IN IF newTime >= s.flowingEndTimeRef + FLOWING_TAIL_MS
          THEN [ flushMisses(s1, 0) EXCEPT !.statusRef = "complete" ]
          ELSE s1

flowingTick(s0) ==
  LET s == [ s0 EXCEPT !.flowingAnimRef = FALSE ]   \* the requested frame runs
      newTime == flowingNewTime(s)
  IN IF s.statusRef # "flowing" THEN s
     ELSE
       LET s1 == missScan([ s EXCEPT !.clockFrac = 0, !.practiceTimeRef = newTime ], 0, newTime)
       IN IF newTime >= s.flowingEndTimeRef + FLOWING_TAIL_MS
          THEN [ flushMisses(s1, 0) EXCEPT !.statusRef = "complete" ]
          ELSE startFlowingLoop(s1)

\* ------------------------------------------------------- flowing note-on
\* The search loop of handleFlowingNoteOn; -1 when nothing is in the window.
RECURSIVE findBest_rematch(_, _, _, _, _)
findBest_rematch(s, midi, i, bestIdx, bestAbsOffset) ==
  IF i >= Len(s.flowingAllNotesRef) THEN bestIdx
  ELSE IF s.flowingAllNotesRef[i + 1].midi # midi
       THEN findBest_rematch(s, midi, i + 1, bestIdx, bestAbsOffset)
  ELSE LET absOffset == Abs(clockOf(s) - toSub(s.flowingAllNotesRef[i + 1].time))
       IN IF absOffset <= toSub(FLOWING_MATCH_WINDOW_MS) /\ absOffset < bestAbsOffset
          THEN findBest_rematch(s, midi, i + 1, i, absOffset)
          ELSE findBest_rematch(s, midi, i + 1, bestIdx, bestAbsOffset)

RECURSIVE findBest_lastWins(_, _, _, _, _)
findBest_lastWins(s, midi, i, bestIdx, bestAbsOffset) ==
  IF i >= Len(s.flowingAllNotesRef) THEN bestIdx
  ELSE IF i \in s.flowingMatchedRef \/ i \in s.flowingMissedRef
       THEN findBest_lastWins(s, midi, i + 1, bestIdx, bestAbsOffset)
  ELSE IF s.flowingAllNotesRef[i + 1].midi # midi
       THEN findBest_lastWins(s, midi, i + 1, bestIdx, bestAbsOffset)
  ELSE LET absOffset == Abs(clockOf(s) - toSub(s.flowingAllNotesRef[i + 1].time))
       IN IF absOffset <= toSub(FLOWING_MATCH_WINDOW_MS) /\ absOffset <= bestAbsOffset
          THEN findBest_lastWins(s, midi, i + 1, i, absOffset)
          ELSE findBest_lastWins(s, midi, i + 1, bestIdx, bestAbsOffset)

RECURSIVE findBest(_, _, _, _, _)
findBest(s, midi, i, bestIdx, bestAbsOffset) ==
  IF i >= Len(s.flowingAllNotesRef) THEN bestIdx
  ELSE IF i \in s.flowingMatchedRef \/ i \in s.flowingMissedRef
       THEN findBest(s, midi, i + 1, bestIdx, bestAbsOffset)
  ELSE IF s.flowingAllNotesRef[i + 1].midi # midi
       THEN findBest(s, midi, i + 1, bestIdx, bestAbsOffset)
  ELSE LET absOffset == Abs(clockOf(s) - toSub(s.flowingAllNotesRef[i + 1].time))
       IN IF absOffset <= toSub(FLOWING_MATCH_WINDOW_MS) /\ absOffset < bestAbsOffset
          THEN findBest(s, midi, i + 1, i, absOffset)
          ELSE findBest(s, midi, i + 1, bestIdx, bestAbsOffset)

\* Infinity of the source: anything above the window.
bestMatch(s, midi) ==
  findBest(s, midi, 0, 0 - 1, toSub(FLOWING_MATCH_WINDOW_MS) + 1)

handleFlowingNoteOn_dropsExtra(s, midi) ==
  LET bestIdx == bestMatch(s, midi)
  IN IF bestIdx >= 0
     THEN LET note == s.flowingAllNotesRef[bestIdx + 1]
              offsetMs == clockOf(s) - toSub(note.time)
          IN [ s EXCEPT
                 !.flowingMatchedRef = @ \cup {bestIdx},
                 !.sessionLogRef =
                    Append(@, Entry(bestIdx, {note.midi}, midi, TRUE, << MathRound(offsetMs) >>,
                                    rateTimingOffset(Abs(offsetMs)))) ]
     ELSE s

handleFlowingNoteOn(s, midi) ==
  LET bestIdx == bestMatch(s, midi)
  IN IF bestIdx >= 0
     THEN LET note == s.flowingAllNotesRef[bestIdx + 1]
              offsetMs == clockOf(s) - toSub(note.time)
          IN [ s EXCEPT
                 !.flowingMatchedRef = @ \cup {bestIdx},
                 !.sessionLogRef =
                    Append(@, Entry(bestIdx, {note.midi}, midi, TRUE, << MathRound(offsetMs) >>,
                                    rateTimingOffset(Abs(offsetMs)))) ]
     ELSE [ s EXCEPT
              !.sessionLogRef =
                 Append(@, Entry(0 - 1, {}, midi, FALSE, Undefined,
                                 "undefined")) ]


\* ------------------------------------------------------- device messages
isNoteOn(type, velocity) == type = NOTE_ON /\ velocity > 0
isNoteOff(type, velocity) == type = NOTE_OFF \/ (type = NOTE_ON /\ velocity = 0)

\* Branch of onmidimessage taken while status is flowing or paused.
flowingMessage(s, type, midi, velocity) ==
  IF isNoteOn(type, velocity)
  THEN LET s1 == [ s EXCEPT !.heldNotesRef = @ \cup {midi} ]
       IN IF s.statusRef = "flowing" THEN handleFlowingNoteOn(s1, midi) ELSE s1
  ELSE IF isNoteOff(type, velocity)
  THEN [ s EXCEPT !.heldNotesRef = @ \ {midi} ]
  ELSE s

\* setTimeout(..., 800) of the wrong-note branch.  stale is history: reset()
\* was called after the timeout was scheduled (reset() leaves it pending).
scheduleWrongTimer(s, midi) ==
  [ s EXCEPT !.wrongTimers =
       Append(@, [ midi |-> midi, due |-> s.now + WRONG_NOTE_CLEAR_MS,
                   stale |-> FALSE ]) ]

stepNoteOn_keepStatus(s, midi) ==
  LET s1 == [ s EXCEPT !.heldNotesRef = @ \cup {midi} ]
      idx == s.stepIndexRef
  IN IF idx >= Len(s.stepsRef) THEN s1
     ELSE
       LET required == requiredOfStep(s, idx)
           s2 == [ s1 EXCEPT !.sessionLogRef =
                     Append(@, Entry(idx, required, midi, midi \in required, Undefined,
                                     "undefined")) ]
       IN IF midi \in required
          THEN checkAndResume(
                 [ s2 EXCEPT !.rearticNeededRef = @ \ {midi},
                             !.specReartic = @ \ {midi},
                             !.satisfiedRef = @ \cup {midi},
                             !.wrongNote = NoNote ])
          ELSE scheduleWrongTimer([ s2 EXCEPT !.wrongNote = midi ], midi)

stepNoteOn_keepsLoop(s, midi) ==
  LET s1 == [ s EXCEPT !.heldNotesRef = @ \cup {midi} ]
      idx == s.stepIndexRef
  IN IF idx >= Len(s.stepsRef) THEN s1
     ELSE
       LET required == requiredOfStep(s, idx)
           s2 == [ s1 EXCEPT !.sessionLogRef =
                     Append(@, Entry(idx, required, midi, midi \in required, Undefined,
                                     "undefined")) ]
       IN IF midi \in required
          THEN checkAndResume(
                 [ s2 EXCEPT !.rearticNeededRef = @ \ {midi},
                             !.specReartic = @ \ {midi},
                             !.satisfiedRef = @ \cup {midi},
                             !.wrongNote = NoNote ])
          ELSE scheduleWrongTimer(
                 [ s2 EXCEPT !.wrongNote = midi,
                             !.statusRef = "waiting" ],
                 midi)

stepNoteOn(s, midi) ==
  LET s1 == [ s EXCEPT !.heldNotesRef = @ \cup {midi} ]
      idx == s.stepIndexRef
  IN IF idx >= Len(s.stepsRef) THEN s1
     ELSE
       LET required == requiredOfStep(s, idx)
           s2 == [ s1 EXCEPT !.sessionLogRef =
                     Append(@, Entry(idx, required, midi, midi \in required, Undefined,
                                     "undefined")) ]
       IN IF midi \in required
          THEN checkAndResume(
                 [ s2 EXCEPT !.rearticNeededRef = @ \ {midi},
                             !.specReartic = @ \ {midi},
                             !.satisfiedRef = @ \cup {midi},
                             !.wrongNote = NoNote ])
          ELSE scheduleWrongTimer(
                 [ s2 EXCEPT !.wrongNote = midi,
                             !.sustainAnimRef =
                                IF s.statusRef = "sustaining" THEN FALSE ELSE @,
                             !.statusRef = "waiting" ],
                 midi)

stepNoteOff_keepsLoop(s, midi) ==
  LET s1 == [ s EXCEPT !.heldNotesRef = @ \ {midi} ]
      idx == s.stepIndexRef
  IN IF idx >= Len(s.stepsRef) THEN s1
     ELSE
       LET required == requiredOfStep(s, idx)
           s2 == IF midi \in required
                 THEN [ s1 EXCEPT !.satisfiedRef = @ \ {midi} ]
                 ELSE s1
       IN IF s2.statusRef = "waiting" THEN checkAndResume(s2) ELSE s2

stepNoteOff_keepsSatisfied(s, midi) ==
  LET s1 == [ s EXCEPT !.heldNotesRef = @ \ {midi} ]
      idx == s.stepIndexRef
  IN IF idx >= Len(s.stepsRef) THEN s1
     ELSE
       LET required == requiredOfStep(s, idx)
           s2 == IF s.statusRef = "sustaining" /\ midi \in required
                 THEN [ s1 EXCEPT !.sustainAnimRef = FALSE,
                                  !.statusRef = "playing" ]
                 ELSE s1
       IN IF s2.statusRef = "waiting" THEN checkAndResume(s2) ELSE s2

stepNoteOff(s, midi) ==
  LET s1 == [ s EXCEPT !.heldNotesRef = @ \ {midi} ]
      idx == s.stepIndexRef
  IN IF idx >= Len(s.stepsRef) THEN s1
     ELSE
       LET required == requiredOfStep(s, idx)
           s2 == IF s.statusRef = "sustaining" /\ midi \in required
                 THEN [ s1 EXCEPT !.sustainAnimRef = FALSE,
                                  !.satisfiedRef = @ \ {midi},
                                  !.statusRef = "playing" ]
                 ELSE IF midi \in required
                 THEN [ s1 EXCEPT !.satisfiedRef = @ \ {midi} ]
                 ELSE s1
       IN IF s2.statusRef = "waiting" THEN checkAndResume(s2) ELSE s2

onmidimessage_anyStatus(s, type, midi, velocity) ==
  IF s.statusRef \in {"flowing", "paused"}
  THEN flowingMessage(s, type, midi, velocity)
  ELSE IF isNoteOn(type, velocity) THEN stepNoteOn(s, midi)
  ELSE IF isNoteOff(type, velocity) THEN stepNoteOff(s, midi)
  ELSE s

onmidimessage(s, type, midi, velocity) ==
  IF s.statusRef \in {"flowing", "paused"}
  THEN flowingMessage(s, type, midi, velocity)
  ELSE IF s.statusRef \notin {"playing", "waiting", "sustaining"} THEN s
  ELSE IF isNoteOn(type, velocity) THEN stepNoteOn(s, midi)
  ELSE IF isNoteOff(type, velocity) THEN stepNoteOff(s, midi)
  ELSE s

wrongNoteTimeout_clearOnly(s, midi) ==
  [ s EXCEPT !.wrongNote = IF @ = midi THEN NoNote ELSE @ ]

\* Callback of the 800 ms timeout scheduled for a wrong note.
wrongNoteTimeout(s, midi) ==
  checkAndResume([ s EXCEPT !.wrongNote = IF @ = midi THEN NoNote ELSE @ ])

\* Callback of the 3 s timeout.
skipTimeout(s) ==
  [ s EXCEPT !.skipTimerRef = NoTimer,
             !.showSkipButton =
                IF s.statusRef \in {"playing", "waiting"} THEN TRUE ELSE @ ]

\* ---------------------------------------------------------------- devices
\* The effect that depends on [activeDevice, midiDevices], run after a render
\* that changed them from their values in old to those in s.  First the
\* cleanup the previous run returned (it returned one only when it found its
\* device): that device loses the handler.  Then the new run: detach the
\* handler from every listed device, attach it to the active one.
foundDevice(s) ==
  s.activeDevice # NoDevice /\ s.midiDevices # {} /\ s.activeDevice \in s.midiDevices

attachListener_keepsOthers(old, s) ==
  IF foundDevice(s) THEN [ s EXCEPT !.listeners = @ \cup { s.activeDevice } ] ELSE s

attachListener(old, s) ==
  LET cleaned == IF foundDevice(old) THEN s.listeners \ { old.activeDevice }
                 ELSE s.listeners
  IN IF s.activeDevice = NoDevice \/ s.midiDevices = {}
     THEN [ s EXCEPT !.listeners = cleaned ]
     ELSE [ s EXCEPT !.listeners =
              (cleaned \ s.midiDevices)
                \cup (IF s.activeDevice \in s.midiDevices THEN { s.activeDevice } ELSE {}) ]

\* refreshDevices: devices is what the platform lists now, first is devices[0].
refreshDevices(s, devices, first) ==
  attachListener(s,
    [ s EXCEPT !.midiDevices = devices,
               !.activeDevice = IF devices # {} /\ @ = NoDevice THEN first ELSE @ ])

setActiveDevice(s, id) == attachListener(s, [ s EXCEPT !.activeDevice = id ])

\* --------------------------------------------------------------- controls
setPracticeMode(s, mode) ==
  [ s EXCEPT !.practiceModeRef = mode,
             !.modeChanged = @ \/ (mode # s.practiceModeRef) ]

skipStep(s) ==
  IF s.stepIndexRef >= Len(s.stepsRef) THEN s
  ELSE goToStep(resetSkipTimer(s), s.stepIndexRef + 1)

togglePause_keepsAnchor(s) ==
  IF s.practiceModeRef # "flowing" THEN s
  ELSE IF s.statusRef = "flowing"
  THEN [ s EXCEPT !.flowingAnimRef = FALSE, !.statusRef = "paused" ]
  ELSE IF s.statusRef = "paused"
  THEN startFlowingLoop([ s EXCEPT !.statusRef = "flowing" ])
  ELSE s

togglePause(s) ==
  IF s.practiceModeRef # "flowing" THEN s
  ELSE IF s.statusRef = "flowing"
  THEN [ s EXCEPT !.flowingAnimRef = FALSE, !.statusRef = "paused" ]
  ELSE IF s.statusRef = "paused"
  THEN startFlowingLoop(
         [ s EXCEPT !.flowingStartOffsetRef = s.practiceTimeRef,
                    !.flowingStartWallRef = s.now,
                    !.statusRef = "flowing" ])
  ELSE s

startFlowing(s) ==
  LET sorted == SortNotes(s.allNotes, FALSE)
      startOffset == Max(0, sorted[1].time - FLOWING_LEAD_IN_MS)
      lastNote == sorted[Len(sorted)]
  IN startFlowingLoop(
       [ s EXCEPT !.flowingAllNotesRef = sorted, !.flowingMatchedRef = {},
                  !.flowingMissedRef = {},
                  !.flowingEndTimeRef = lastNote.time + lastNote.duration,
                  !.flowingStartOffsetRef = startOffset,
                  !.flowingStartWallRef = s.now,
                  !.clockFrac = 0, !.practiceTimeRef = startOffset, !.currentStepIndex = 0,
                  !.stepsRef = <<>>, !.cues = <<>>, !.stepIndexRef = 0,
                  !.statusRef = "flowing" ])

startSteps(s) ==
  LET allSteps == buildSteps(s.allNotes)
  IN IF Len(allSteps) = 0
     THEN [ s EXCEPT !.error = "No notes in this score." ]
     ELSE startSkipTimer(
            [ s EXCEPT !.stepsRef = allSteps, !.stepIndexRef = 0,
                       !.cues = [ k \in 1..Len(allSteps) |-> 0 ],
                       !.clockFrac = 0, !.practiceTimeRef = allSteps[1].time,
                       !.currentStepIndex = 0, !.statusRef = "playing" ])

start_clearsFirst(s) ==
  LET s1 == [ s EXCEPT !.sustainAnimRef = FALSE, !.flowingAnimRef = FALSE,
                       !.sessionLogRef = <<>>,
                       !.satisfiedRef = {}, !.heldNotesRef = {},
                       !.rearticNeededRef = {}, !.audioPlayedRef = FALSE,
                       !.error = NoError, !.showSkipButton = FALSE,
                       !.wrongNote = NoNote, !.modeChanged = FALSE,
                       !.specReartic = {}, !.freeRide = FALSE ]
  IN IF Len(s.allNotes) = 0
     THEN [ s1 EXCEPT !.error = "No notes in this score." ]
     ELSE IF s.practiceModeRef = "flowing"
     THEN startFlowing([ s1 EXCEPT !.sessions = @ + 1 ])
     ELSE startSteps([ s1 EXCEPT !.sessions = @ + 1 ])

start(s) ==
  IF Len(s.allNotes) = 0
  THEN [ s EXCEPT !.error = "No notes in this score." ]
  ELSE
    LET s1 == [ s EXCEPT !.sustainAnimRef = FALSE, !.flowingAnimRef = FALSE,
                         !.sessionLogRef = <<>>,
                         !.satisfiedRef = {}, !.heldNotesRef = {},
                         !.rearticNeededRef = {}, !.audioPlayedRef = FALSE,
                         !.error = NoError, !.showSkipButton = FALSE,
                         !.wrongNote = NoNote, !.modeChanged = FALSE,
                         !.sessions = @ + 1, !.specReartic = {},
                         !.freeRide = FALSE ]
    IN IF s.practiceModeRef = "flowing" THEN startFlowing(s1) ELSE startSteps(s1)

reset(s) ==
  [ resetSkipTimer(s) EXCEPT
      !.sustainAnimRef = FALSE, !.flowingAnimRef = FALSE,
      !.stepsRef = <<>>, !.cues = <<>>, !.stepIndexRef = 0, !.satisfiedRef = {},
      !.sessionLogRef = <<>>, !.heldNotesRef = {}, !.rearticNeededRef = {},
      !.audioPlayedRef = FALSE, !.flowingAllNotesRef = <<>>,
      !.flowingMatchedRef = {}, !.flowingMissedRef = {},
      !.clockFrac = 0, !.practiceTimeRef = 0, !.currentStepIndex = 0, !.wrongNote = NoNote,
      !.error = NoError, !.statusRef = "idle", !.modeChanged = FALSE,
      !.specReartic = {}, !.freeRide = FALSE,
      !.wrongTimers = [ i \in DOMAIN @ |-> [ @[i] EXCEPT !.stale = TRUE ] ] ]

\* ---------------------------------------------------------------- actions
InitEngine(scores) ==
  /\ now = 0
  /\ frameDue = FALSE
  /\ allNotes \in scores
  /\ practiceModeRef = "flowing"
  /\ statusRef = "idle"
  /\ stepsRef = <<>>
  /\ stepIndexRef = 0
  /\ currentStepIndex = 0
  /\ satisfiedRef = {}
  /\ sessionLogRef = <<>>
  /\ heldNotesRef = {}
  /\ rearticNeededRef = {}
  /\ practiceTimeRef = 0
  /\ sustainAnimRef = FALSE
  /\ sustainBaseWallRef = 0
  /\ sustainBasePracticeRef = 0
  /\ audioPlayedRef = FALSE
  /\ skipTimerRef = NoTimer
  /\ showSkipButton = FALSE
  /\ flowingAnimRef = FALSE
  /\ flowingStartWallRef = 0
  /\ flowingStartOffsetRef = 0
  /\ flowingAllNotesRef = <<>>
  /\ flowingMatchedRef = {}
  /\ flowingMissedRef = {}
  /\ flowingEndTimeRef = 0
  /\ wrongNote = NoNote
  /\ wrongTimers = <<>>
  /\ error = NoError
  /\ modeChanged = FALSE
  /\ sessions = 0
  /\ specReartic = {}
  /\ freeRide = FALSE
  /\ keysDown = {}
  /\ stuckSince = 0
  /\ clockFrac = 0
  /\ cues = << >>
  /\ playbackSpeedRef = DEFAULT_SPEED

\* The hook once the platform has listed one keyboard, which became the
\* active device and got the message handler.
InitWith(scores) ==
  /\ InitEngine(scores)
  /\ midiDevices = { "d1" }
  /\ activeDevice = "d1"
  /\ listeners = { "d1" }

\* Something is scheduled or running whose behaviour depends on the wall clock.
timeMatters ==
  statusRef \notin {"idle", "complete"} \/ wrongTimers # <<>> \/ skipTimerRef # NoTimer

\* A timeout whose delay has elapsed and whose callback has not run yet.
timeoutDue ==
  \/ (wrongTimers # <<>> /\ now >= Head(wrongTimers).due)
  \/ (skipTimerRef # NoTimer /\ now >= skipTimerRef)

\* One frame of wall-clock time passes.  The browser runs a requested
\* animation frame callback and the timeouts that are due before the next
\* frame passes; device messages arrive before, between or after them.
Advance ==
  /\ now + Frame <= MaxNow
  /\ timeMatters
  /\ ~(frameDue /\ (sustainAnimRef \/ flowingAnimRef))
  /\ ~timeoutDue
  /\ Install([ Cur EXCEPT !.now = now + Frame, !.frameDue = TRUE ])

MidiMessage(type, midi, velocity) ==
  /\ listeners \cap midiDevices # {}
  /\ isNoteOn(type, velocity) => Len(sessionLogRef) < MaxLog
  /\ LET s == onmidimessage(Cur, type, midi, velocity)
     IN /\ Len(s.wrongTimers) <= MaxTimers
        /\ Install(s)

SustainTick ==
  /\ sustainAnimRef
  /\ frameDue
  /\ Install(sustainTick([ Cur EXCEPT !.frameDue = FALSE ]))

FlowingTick ==
  /\ flowingAnimRef
  /\ frameDue
  /\ Install(flowingTick([ Cur EXCEPT !.frameDue = FALSE ]))

WrongNoteTimeout ==
  /\ wrongTimers # <<>>
  /\ now >= Head(wrongTimers).due
  /\ Install(wrongNoteTimeout([ Cur EXCEPT !.wrongTimers = Tail(@) ],
                              Head(wrongTimers).midi))

SkipTimeout ==
  /\ skipTimerRef # NoTimer
  /\ now >= skipTimerRef
  /\ Install(skipTimeout(Cur))

Start ==
  /\ sessions < MaxSessions
  /\ Install(start(Cur))

Reset ==
  /\ Install(reset(Cur))

SkipStep ==
  /\ Install(skipStep(Cur))

TogglePause ==
  /\ Install(togglePause(Cur))

SetPracticeMode(mode) ==
  /\ Install(setPracticeMode(Cur, mode))

Init == InitWith(Scores)

Next ==
  \/ Advance
  \/ \E type \in {NOTE_ON, NOTE_OFF}, midi \in Pitches, velocity \in Velocities :
       MidiMessage(type, midi, velocity)
  \/ SustainTick
  \/ FlowingTick
  \/ WrongNoteTimeout
  \/ SkipTimeout
  \/ Start
  \/ Reset
  \/ SkipStep
  \/ TogglePause
  \/ \E mode \in PracticeModes : SetPracticeMode(mode)

Spec == Init /\ [][Next]_vars

\* The same engine on the score with a sustained note.
InitSustained == InitWith({ ScoreSustained })

SpecSustained == InitSustained /\ [][Next]_vars

\* The same engine on the score with a long note under a short one.
InitOverlap == InitWith({ ScoreOverlap })

SpecOverlap == InitOverlap /\ [][Next]_vars

\* The same engine when the browser withholds animation frames for a while
\* (a hidden tab): several frames of wall-clock time pass with no tick.
StallFrames == 4

Stall ==
  /\ now + StallFrames * Frame <= MaxNow
  /\ sustainAnimRef \/ flowingAnimRef
  /\ ~timeoutDue
  /\ Install([ Cur EXCEPT !.now = now + StallFrames * Frame, !.frameDue = TRUE ])

InitStall == InitWith({ ScoreTwoSteps })

NextStall == Next \/ Stall

SpecStall == InitStall /\ [][NextStall]_vars

\* The same engine with one more start(), issued right after a reset() that
\* left a timeout of the ended session pending, on the score with a repeated
\* pitch.
Restart ==
  /\ sessions = MaxSessions
  /\ statusRef = "idle"
  /\ wrongTimers # << >>
  /\ Install(start(Cur))

InitRestart == InitWith({ ScoreRepeated })

NextRestart == Next \/ Restart

SpecRestart == InitRestart /\ [][NextRestart]_vars

\* The same engine on a score whose second step is a chord that repeats the
\* pitch of the first step.
ScoreChord == << Note(60, 0, 500), Note(60, 1000, 500), Note(64, 1000, 500) >>

InitChord == InitWith({ ScoreChord })

SpecChord == InitChord /\ [][Next]_vars

\* The same engine when the application loads another score, or unloads the
\* score, at any moment: getAllNotes() reads the current one at each start().
LoadScore(score) ==
  /\ score # allNotes
  /\ Install([ Cur EXCEPT !.allNotes = score ])

\* start() while no notes are loaded, also after a session was created.
StartNoNotes ==
  /\ Len(allNotes) = 0
  /\ Install(start(Cur))

InitLoad == InitWith({ << >>, ScoreTwoSteps })

NextLoad ==
  \/ Next
  \/ \E score \in { << >>, ScoreTwoSteps } : LoadScore(score)
  \/ StartNoNotes

SpecLoad == InitLoad /\ [][NextLoad]_vars

\* The same engine from the moment the hook is mounted, before the platform
\* has listed any device, with keyboards plugged, unplugged and selected
\* around flowing sessions.
ScoreOne == << Note(60, 0, 500) >>

DeviceChange(devices, first) ==
  /\ devices # midiDevices
  /\ devices # {} => first \in devices
  /\ Install(refreshDevices(Cur, devices, first))

SetActiveDevice(id) ==
  /\ id \in midiDevices
  /\ id # activeDevice
  /\ Install(setActiveDevice(Cur, id))

InitDevice ==
  /\ InitEngine({ ScoreOne })
  /\ midiDevices = {}
  /\ activeDevice = NoDevice
  /\ listeners = {}

NextDevice ==
  \/ Advance
  \/ \E type \in {NOTE_ON, NOTE_OFF}, midi \in Pitches, velocity \in Velocities :
       MidiMessage(type, midi, velocity)
  \/ FlowingTick
  \/ Start
  \/ Reset
  \/ TogglePause
  \/ \E devices \in SUBSET Devices, first \in Devices : DeviceChange(devices, first)
  \/ \E id \in Devices : SetActiveDevice(id)

SpecDevice == InitDevice /\ [][NextDevice]_vars

\* The same engine with the keyboard's own state recorded beside it: every
\* device message also updates keysDown, whatever the handler does with it.
KeyMessage(type, midi, velocity) ==
  /\ listeners \cap midiDevices # {}
  /\ isNoteOn(type, velocity) => Len(sessionLogRef) < MaxLog
  /\ LET s == onmidimessage(Cur, type, midi, velocity)
     IN /\ Len(s.wrongTimers) <= MaxTimers
        /\ Install([ s EXCEPT !.keysDown = IF isNoteOn(type, velocity)
                                           THEN @ \cup { midi }
                                           ELSE @ \ { midi } ])

InitHeld == InitWith({ ScoreOne })

NextHeld ==
  \/ Advance
  \/ \E type \in {NOTE_ON, NOTE_OFF}, midi \in Pitches, velocity \in Velocities :
       KeyMessage(type, midi, velocity)
  \/ SustainTick
  \/ FlowingTick
  \/ WrongNoteTimeout
  \/ SkipTimeout
  \/ Start
  \/ Reset
  \/ SkipStep
  \/ TogglePause
  \/ \E mode \in PracticeModes : SetPracticeMode(mode)

SpecHeld == InitHeld /\ [][NextHeld]_vars

\* The flowing matcher with the clock read at any instant near the note, not
\* only at whole frames: a tick brings the clock to ms + frac / SubMs.  The
\* instants stay inside the match window of the notes still open, so that no
\* miss is due at the tick, and before the end of the session.  Pausing is
\* left out: its anchors are whole milliseconds.
RatingDeltas ==
  { 0, 49, 50, 150, 300, 499, 500,
    0 - 50, 0 - 51, 0 - 150, 0 - 151, 0 - 300, 0 - 301, 0 - 500 }

TickAt(ms, frac) ==
  /\ statusRef = "flowing"
  /\ toSub(ms) + frac > clockOf(Cur)
  /\ \A i \in 0 .. (Len(flowingAllNotesRef) - 1) :
        (i \notin flowingMatchedRef \cup flowingMissedRef) =>
          toSub(ms) + frac <= toSub(flowingAllNotesRef[i + 1].time + FLOWING_MATCH_WINDOW_MS)
  /\ ms + 1 < flowingEndTimeRef + FLOWING_TAIL_MS
  /\ Install(startFlowingLoop(
               [ Cur EXCEPT !.now = flowingStartWallRef + (ms - flowingStartOffsetRef),
                            !.frameDue = FALSE,
                            !.practiceTimeRef = ms,
                            !.clockFrac = frac ]))

InitRating == InitWith({ ScoreLate })

NextRating ==
  \/ Start
  \/ Reset
  \/ \E d \in RatingDeltas, frac \in 0 .. (SubMs - 1) : TickAt(ScoreLate[1].time + d, frac)
  \/ \E type \in {NOTE_ON, NOTE_OFF}, midi \in Pitches, velocity \in Velocities :
       MidiMessage(type, midi, velocity)

SpecRating == InitRating /\ [][NextRating]_vars

\* The flowing matcher read at the same instants on two notes of one pitch
\* that are both in the match window.
InitClose == InitWith({ ScoreClose })

SpecClose == InitClose /\ [][NextRating]_vars

\* The step builder on every list of up to MaxNotes notes drawn from a few
\* start times around the chord tolerance, two pitches and two durations:
\* start() builds the steps of the list it is given.
MaxNotes == 3
BuilderTimes == { 0, 30, 40, 100 }
BuilderDurations == { 50, 200 }
BuilderNotes ==
  { Note(m, tm, d) : m \in Pitches, tm \in BuilderTimes, d \in BuilderDurations }
BuilderScores ==
  UNION { [ 1..n -> BuilderNotes ] : n \in 0..MaxNotes }

InitSteps == InitWith(BuilderScores)

NextSteps ==
  \/ Start
  \/ Reset
  \/ \E mode \in PracticeModes : SetPracticeMode(mode)

SpecSteps == InitSteps /\ [][NextSteps]_vars

\* The sustain loop with frames at any distance, on a score whose only step
\* is shorter than the minimum effective duration: d ms of wall-clock time
\* pass and the requested frame runs.
ScoreShort == << Note(60, 0, 200) >>

FrameDeltas == { 99, 100, 200 }

SustainTickAt(d) ==
  /\ sustainAnimRef
  /\ statusRef = "sustaining"
  /\ now + d <= MaxNow
  /\ ~timeoutDue
  /\ Install(sustainTick([ Cur EXCEPT !.now = now + d, !.frameDue = FALSE ]))

InitFinal == InitWith({ ScoreShort })

NextFinal ==
  \/ Next
  \/ \E d \in FrameDeltas : SustainTickAt(d)

SpecFinal == InitFinal /\ [][NextFinal]_vars

\* The same engine when the host changes the playback-speed multiplier at any
\* moment, between two of the presets of its speed control.
Speeds == { 50, DEFAULT_SPEED }

SetPlaybackSpeed(speed) ==
  /\ speed # playbackSpeedRef
  /\ Install([ Cur EXCEPT !.playbackSpeedRef = speed ])

InitSpeed == InitWith({ ScoreTwoSteps })

NextSpeed ==
  \/ Next
  \/ \E speed \in Speeds : SetPlaybackSpeed(speed)

SpecSpeed == InitSpeed /\ [][NextSpeed]_vars

\* A flowing session under fair scheduling.  Wall-clock time is counted while
\* the session runs (what passes during a pause is dropped at the resume,
\* which takes the clock up where the last tick left it); the player pauses
\* between two frames and resumes at some later moment.
AdvanceLive ==
  /\ statusRef = "flowing"
  /\ Advance

PauseLive ==
  /\ statusRef = "flowing"
  /\ ~frameDue
  /\ TogglePause

ResumeLive ==
  /\ statusRef = "paused"
  /\ TogglePause

InitLive == InitWith({ ScoreOne, ScoreTwoSteps })

NextLive ==
  \/ Start
  \/ AdvanceLive
  \/ FlowingTick
  \/ PauseLive
  \/ ResumeLive
  \/ \E type \in {NOTE_ON, NOTE_OFF}, midi \in Pitches, velocity \in Velocities :
       MidiMessage(type, midi, velocity)

\* A requested frame runs; a paused session is resumed; and time passes again
\* and again while the session runs.
SpecLive ==
  /\ InitLive
  /\ [][NextLive]_vars
  /\ WF_vars(FlowingTick)
  /\ WF_vars(ResumeLive)
  /\ SF_vars(AdvanceLive)

\* ------------------------------------------------------------ properties
\* A flowing session is the one whose step list is empty (start() builds no
\* steps in flowing mode, lines 949-952).
InFlowingSession ==
  /\ stepsRef = << >>
  /\ statusRef \in { "flowing", "paused", "complete" }

TimingRatings == { "perfect", "great", "okay", "poor" }

\* Entries of the log that close reference note i: its match or its miss.
TerminalEntries(i) ==
  { k \in DOMAIN sessionLogRef :
      /\ sessionLogRef[k].stepIndex = i
      /\ \/ sessionLogRef[k].correct /\ sessionLogRef[k].rating \in TimingRatings
         \/ ~sessionLogRef[k].correct /\ sessionLogRef[k].rating = "miss" }

MatchEntries(i) ==
  { k \in DOMAIN sessionLogRef :
      sessionLogRef[k].stepIndex = i /\ sessionLogRef[k].correct }

MissEntries(i) ==
  { k \in DOMAIN sessionLogRef :
      /\ sessionLogRef[k].stepIndex = i
      /\ ~sessionLogRef[k].correct
      /\ sessionLogRef[k].rating = "miss" }

NoteIndices == 0 .. (Len(flowingAllNotesRef) - 1)

\* C1: when a flowing session started with N reference notes is complete,
\* the session log holds exactly one terminal entry (a correct entry with a
\* timing rating, or a miss entry) for each note index 0..N-1.
C1_FlowingCompleteness ==
  (InFlowingSession /\ statusRef = "complete") =>
     \A i \in NoteIndices : Cardinality(TerminalEntries(i)) = 1

\* A complete flowing session in which one note was matched and one missed.
C1_Witness ==
  /\ InFlowingSession /\ statusRef = "complete"
  /\ flowingMatchedRef # {} /\ flowingMissedRef # {}
  /\ \A i \in NoteIndices : Cardinality(TerminalEntries(i)) = 1

\* C2: in a flowing session the matched and missed index sets are disjoint,
\* an index has a correct log entry exactly when it is matched and then only
\* one (it is matched by at most one press), and one step of the program adds
\* at most one index to the matched set (a press matches at most one note).
C2_MatchedMissedDisjoint ==
  /\ [](InFlowingSession =>
          /\ flowingMatchedRef \cap flowingMissedRef = {}
          /\ \A i \in NoteIndices :
                Cardinality(MatchEntries(i)) = IF i \in flowingMatchedRef THEN 1 ELSE 0)
  /\ [][ /\ Cardinality(flowingMatchedRef' \ flowingMatchedRef) <= 1
         /\ (flowingMatchedRef' # flowingMatchedRef /\ flowingMatchedRef' # {}) =>
               /\ flowingMatchedRef \subseteq flowingMatchedRef'
               /\ Len(sessionLogRef') = Len(sessionLogRef) + 1 ]_vars

\* Two presses of the same pitch were logged, the first as the match of a
\* note and the second as a note that matched nothing.
C2_Witness ==
  /\ InFlowingSession
  /\ \E k \in DOMAIN sessionLogRef : \E j \in DOMAIN sessionLogRef :
        /\ k < j
        /\ sessionLogRef[k].correct
        /\ sessionLogRef[k].stepIndex \in flowingMatchedRef
        /\ ~sessionLogRef[j].correct
        /\ sessionLogRef[j].playedMidi = sessionLogRef[k].playedMidi

\* C3: at a tick of the flowing loop every unmatched reference note whose
\* start time is more than 500 ms behind the new clock is in the missed set
\* with exactly one miss entry; and within the session a missed note stays
\* missed, keeps its single miss entry and is never matched by a later press.
C3_MissDetection ==
  [][ /\ (FlowingTick /\ statusRef = "flowing") =>
           \A i \in NoteIndices :
              (i \notin flowingMatchedRef
                 /\ flowingAllNotesRef[i + 1].time
                      < flowingNewTime(Cur) - FLOWING_MATCH_WINDOW_MS) =>
                 (i \in flowingMissedRef' /\ Cardinality(MissEntries(i))' = 1)
      /\ (InFlowingSession /\ sessions' = sessions /\ statusRef' # "idle") =>
           \A i \in flowingMissedRef :
              /\ i \in flowingMissedRef'
              /\ i \notin flowingMatchedRef'
              /\ Cardinality(MissEntries(i))' = 1 ]_vars

\* A note was logged as missed and a later press of its pitch was logged as
\* a note that matched nothing.
C3_Witness ==
  /\ InFlowingSession
  /\ \E i \in flowingMissedRef : \E k \in MissEntries(i) :
        \E j \in DOMAIN sessionLogRef :
           /\ k < j
           /\ sessionLogRef[j].playedMidi = flowingAllNotesRef[i + 1].midi
           /\ ~sessionLogRef[j].correct
           /\ sessionLogRef[j].stepIndex = 0 - 1

StepStatuses == { "playing", "waiting", "sustaining" }

ActiveStatuses == StepStatuses \cup { "flowing", "paused" }

LastEntry == sessionLogRef[Len(sessionLogRef)]

\* C4: in continuous mode a pitch that is in the required set of the previous
\* step and in the own pitches of the entered step does not count towards
\* satisfying that step until a note-on for it has been processed after the
\* step was entered: it is not in the satisfied set, and the step is not
\* sustaining, while such a pitch is still waiting for its note-on.  Stated
\* for the sessions that were started in continuous mode and stayed in it.
C4_ContinuousRearticulation ==
  (practiceModeRef = "continuous" /\ ~modeChanged /\ statusRef \in StepStatuses) =>
     /\ satisfiedRef \cap specReartic = {}
     /\ statusRef = "sustaining" => specReartic = {}

\* C5: in discrete as well as in continuous mode no step is satisfied while
\* a pitch it shares with the previous step's chord has had no note-on since
\* the step was entered, whatever event runs checkAndResume.  Stated for the
\* sessions whose mode was not changed after start().
C5_NoSatisfactionOnHeldPitches ==
  (practiceModeRef \in { "discrete", "continuous" } /\ ~modeChanged) => ~freeRide

\* The sustain clock has run past the over-hold limit of the current step.
overHoldPassed ==
  LET idx == stepIndexRef
      step == stepsRef[idx + 1]
      effectiveDuration == Max(MIN_EFFECTIVE_DURATION_MS, step.maxDuration)
      gapToNext == IF idx + 1 < Len(stepsRef)
                   THEN stepsRef[idx + 2].time - step.time
                   ELSE effectiveDuration
  IN OVER_HOLD_DEN * (sustainNewTime(Cur) - step.time)
       > OVER_HOLD_NUM * Max(effectiveDuration, gapToNext)

\* C6: in continuous mode, a tick of the sustain loop that finds the step
\* still sustaining with the sustain clock past the over-hold limit sets the
\* status to playing, empties the satisfied set, puts the practice clock back
\* to the start time of the step and changes neither the step index nor the
\* session log.
C6_OverHoldReset ==
  [][ ( /\ SustainTick
        /\ practiceModeRef = "continuous"
        /\ statusRef = "sustaining"
        /\ stepIndexRef < Len(stepsRef)
        /\ overHoldPassed ) =>
      ( /\ statusRef' = "playing"
        /\ satisfiedRef' = {}
        /\ practiceTimeRef' = stepsRef[stepIndexRef + 1].time
        /\ stepIndexRef' = stepIndexRef
        /\ currentStepIndex' = currentStepIndex
        /\ sessionLogRef' = sessionLogRef ) ]_vars

\* What a callback can change of the session, besides the queue of pending
\* 800 ms timeouts itself.
sessionVars ==
  << statusRef, stepsRef, stepIndexRef, currentStepIndex, satisfiedRef,
     sessionLogRef, heldNotesRef, rearticNeededRef, practiceTimeRef,
     sustainAnimRef, sustainBaseWallRef, sustainBasePracticeRef,
     audioPlayedRef, skipTimerRef, showSkipButton, flowingAnimRef,
     flowingMatchedRef, flowingMissedRef, wrongNote, error >>

\* C7: a callback scheduled before reset() never runs against a later state:
\* after reset() no frame request and no skip timer is pending, and an 800 ms
\* timeout scheduled before the reset changes nothing of the session when
\* its time comes, also when a new session was started right after the reset.
C7_ResetCancelsCallbacks ==
  [][ /\ Reset => (~sustainAnimRef' /\ ~flowingAnimRef' /\ skipTimerRef' = NoTimer)
      /\ (WrongNoteTimeout /\ Head(wrongTimers).stale) => UNCHANGED sessionVars ]_vars

\* C8: changing the practice mode while a session is active acts as a
\* reset: the status becomes idle, the session log, the steps and the held
\* set are cleared and no frame request or skip timer stays pending.
C8_SetModeResets ==
  [][ (practiceModeRef' # practiceModeRef /\ statusRef \in ActiveStatuses) =>
      ( /\ statusRef' = "idle"
        /\ sessionLogRef' = << >>
        /\ stepsRef' = << >>
        /\ stepIndexRef' = 0
        /\ heldNotesRef' = {}
        /\ ~sustainAnimRef' /\ ~flowingAnimRef' /\ skipTimerRef' = NoTimer ) ]_vars

\* C9: in discrete or continuous mode, a note-on for a pitch outside the
\* required set of the current step, arriving while the status is playing,
\* waiting or sustaining, sets the status to waiting (never idle or
\* complete), appends exactly one entry with correct = false that carries
\* the current step index, and leaves the step index unchanged.
C9_WrongNote ==
  [][ \A midi \in Pitches :
        ( /\ MidiMessage(NOTE_ON, midi, 100)
          /\ practiceModeRef \in { "discrete", "continuous" }
          /\ statusRef \in StepStatuses
          /\ stepIndexRef < Len(stepsRef)
          /\ midi \notin requiredOfStep(Cur, stepIndexRef) ) =>
        ( /\ statusRef' = "waiting"
          /\ Len(sessionLogRef') = Len(sessionLogRef) + 1
          /\ SubSeq(sessionLogRef', 1, Len(sessionLogRef)) = sessionLogRef
          /\ ~LastEntry'.correct
          /\ LastEntry'.stepIndex = stepIndexRef
          /\ LastEntry'.playedMidi = midi
          /\ stepIndexRef' = stepIndexRef
          /\ currentStepIndex' = currentStepIndex ) ]_vars

\* A wrong note was just logged against the current step, which is waiting.
C9_Witness ==
  /\ practiceModeRef \in { "discrete", "continuous" }
  /\ statusRef = "waiting"
  /\ sessionLogRef # << >>
  /\ ~LastEntry.correct
  /\ LastEntry.stepIndex = stepIndexRef
  /\ LastEntry.playedMidi = wrongNote
  /\ wrongNote \notin requiredOfStep(Cur, stepIndexRef)

\* C10: in discrete mode, while the status is playing or waiting, a note-on
\* for a pitch of the current step that makes every pitch of the step held
\* appends one entry with correct = true and advances the step index by one
\* in the same event; the status does not become sustaining, and it becomes
\* complete when the step was the last one.
C10_DiscreteAdvance ==
  [][ \A midi \in Pitches :
        ( /\ MidiMessage(NOTE_ON, midi, 100)
          /\ practiceModeRef = "discrete"
          /\ statusRef \in { "playing", "waiting" }
          /\ stepIndexRef < Len(stepsRef)
          /\ midi \in stepsRef[stepIndexRef + 1].midis
          /\ stepsRef[stepIndexRef + 1].midis \subseteq heldNotesRef \cup {midi} ) =>
        ( /\ Len(sessionLogRef') = Len(sessionLogRef) + 1
          /\ SubSeq(sessionLogRef', 1, Len(sessionLogRef)) = sessionLogRef
          /\ LastEntry'.correct
          /\ LastEntry'.stepIndex = stepIndexRef
          /\ stepIndexRef' = stepIndexRef + 1
          /\ currentStepIndex' = currentStepIndex + 1
          /\ statusRef' # "sustaining"
          /\ (stepIndexRef + 1 = Len(stepsRef)) => statusRef' = "complete" ) ]_vars

\* C11: in continuous mode a note-off (or a note-on with velocity 0) for a
\* pitch of the required set of the current step, received while sustaining,
\* sets the status to playing in the same event, removes the pitch from the
\* satisfied set, stops the sustain loop and leaves the practice clock where
\* it was; and as long as the engine then stays on that step in playing or
\* waiting, no step of the program changes the practice clock.
C11_ReleaseFreezesClock ==
  [][ /\ \A type \in { NOTE_ON, NOTE_OFF }, midi \in Pitches :
          ( /\ MidiMessage(type, midi, 0)
            /\ practiceModeRef = "continuous"
            /\ statusRef = "sustaining"
            /\ stepIndexRef < Len(stepsRef)
            /\ midi \in requiredOfStep(Cur, stepIndexRef) ) =>
          ( /\ statusRef' = "playing"
            /\ satisfiedRef' = satisfiedRef \ {midi}
            /\ practiceTimeRef' = practiceTimeRef
            /\ ~sustainAnimRef' )
      /\ ( /\ practiceModeRef = "continuous"
           /\ statusRef \in { "playing", "waiting" }
           /\ statusRef' \in { "playing", "waiting" }
           /\ stepIndexRef' = stepIndexRef
           /\ stepsRef' = stepsRef
           /\ sessions' = sessions ) =>
          practiceTimeRef' = practiceTimeRef ]_vars

\* A required pitch was released in mid-step: the clock stands past the start
\* of the step, the step is no longer satisfied, and wall-clock time has gone
\* on since the clock was frozen.
C11_Witness ==
  /\ practiceModeRef = "continuous"
  /\ statusRef = "playing"
  /\ stepIndexRef < Len(stepsRef)
  /\ practiceTimeRef > stepsRef[stepIndexRef + 1].time
  /\ ~(requiredOfStep(Cur, stepIndexRef) \subseteq heldNotesRef)
  /\ ~sustainAnimRef
  /\ now - sustainBaseWallRef > practiceTimeRef - sustainBasePracticeRef

\* C12: in a session started in continuous mode whose mode was not changed,
\* whenever the status is sustaining every pitch of the required set of the
\* current step is in the held set and none of them is in the set of pitches
\* pending re-articulation.
C12_SustainingInvariant ==
  (practiceModeRef = "continuous" /\ ~modeChanged /\ statusRef = "sustaining") =>
     /\ stepIndexRef < Len(stepsRef)
     /\ requiredOfStep(Cur, stepIndexRef) \subseteq heldNotesRef
     /\ requiredOfStep(Cur, stepIndexRef) \cap rearticNeededRef = {}

\* The engine sustains a step it entered with a pitch pending
\* re-articulation, after that pitch was pressed again.
C12_Witness ==
  /\ practiceModeRef = "continuous" /\ ~modeChanged
  /\ statusRef = "sustaining"
  /\ stepIndexRef > 0
  /\ stepsRef[stepIndexRef + 1].midis \cap stepsRef[stepIndexRef].midis # {}
  /\ requiredOfStep(Cur, stepIndexRef) \subseteq heldNotesRef
  /\ rearticNeededRef = {}

\* C13: start() on a score with no notes sets the error field and creates
\* no session: status, mode, practice clock, step index, held set and session
\* log are exactly what they were before the call, in every mode and from
\* every prior status.
C13_StartWithoutNotes ==
  [][ (Len(allNotes) = 0 /\ Install(start(Cur))) =>
      ( /\ error' = "No notes in this score."
        /\ UNCHANGED << statusRef, practiceModeRef, practiceTimeRef, stepIndexRef,
                        currentStepIndex, heldNotesRef, sessionLogRef, stepsRef,
                        sessions >> ) ]_vars

\* start() was refused for lack of notes while a session with a log and
\* held keys was running, and the session is still there.
C13_Witness ==
  /\ Len(allNotes) = 0
  /\ error = "No notes in this score."
  /\ statusRef \in ActiveStatuses
  /\ sessionLogRef # << >>
  /\ heldNotesRef # {}

\* C14: start() called while no input device is available reports an error
\* in the error field and creates no session: the status does not change.
C14_StartWithoutDevice ==
  [][ ( /\ Install(start(Cur))
        /\ Len(allNotes) > 0
        /\ midiDevices = {} ) =>
      ( /\ error' # NoError
        /\ statusRef' = statusRef
        /\ sessions' = sessions ) ]_vars

\* C15: in every status the held-pitch set is the set of pitches whose most
\* recent device message was a note-on with velocity > 0.
C15_HeldIsGroundTruth == heldNotesRef = keysDown

\* C16: in discrete or continuous mode, once the engine has stayed on the
\* same step in status playing or waiting for 3 seconds, the skip button is
\* shown, also when that status was entered from sustaining.
C16_SkipAffordance ==
  ( /\ practiceModeRef \in {"discrete", "continuous"}
    /\ ~modeChanged
    /\ stuckOnStep(Cur)
    /\ now - stuckSince >= SKIP_TIMER_MS
    /\ ~timeoutDue ) =>
  showSkipButton

\* C17: skipStep() on an active step of a discrete or continuous session
\* advances the step index by exactly one, to complete from the last step,
\* and leaves the session log as it is; with no active step (idle, flowing,
\* index past the end) it changes nothing.
C17_SkipStep ==
  [][ Install(skipStep(Cur)) =>
        IF statusRef \in StepStatuses /\ stepIndexRef < Len(stepsRef)
        THEN /\ stepIndexRef' = stepIndexRef + 1
             /\ currentStepIndex' = currentStepIndex + 1
             /\ sessionLogRef' = sessionLogRef
             /\ stepsRef' = stepsRef
             /\ (statusRef' = "complete") <=> (stepIndexRef + 1 = Len(stepsRef))
        ELSE UNCHANGED vars ]_vars

\* C18: while status is paused nothing changes the practice clock, logs a
\* miss or judges a press; when togglePause() resumes, the clock continues
\* from exactly the value it had when paused, so the wall-clock time that
\* passed during the pause is never added to it.
C18_PauseFreezesClock ==
  [][ /\ (statusRef = "paused" /\ statusRef' = "paused") =>
           /\ practiceTimeRef' = practiceTimeRef
           /\ sessionLogRef' = sessionLogRef
           /\ flowingMatchedRef' = flowingMatchedRef
           /\ flowingMissedRef' = flowingMissedRef
           /\ ~flowingAnimRef'
      /\ (statusRef = "paused" /\ Install(togglePause(Cur)) /\ statusRef' = "flowing") =>
           /\ practiceTimeRef' = practiceTimeRef
           /\ sessionLogRef' = sessionLogRef
           /\ flowingAnimRef'
           /\ flowingStartOffsetRef' + (now' - flowingStartWallRef') = practiceTimeRef
    ]_vars

\* A session resumed after a pause during which wall-clock time passed: the
\* clock is behind the wall-clock time since start().
C18_Witness ==
  /\ statusRef = "flowing"
  /\ flowingAnimRef
  /\ flowingStartWallRef = now
  /\ flowingStartOffsetRef = practiceTimeRef
  /\ practiceTimeRef > 0
  /\ now > practiceTimeRef

\* Latest end time (startTime + duration) over the notes of the session.
lastNoteEnd ==
  LET ends == { flowingAllNotesRef[i].time + flowingAllNotesRef[i].duration :
                  i \in 1..Len(flowingAllNotesRef) }
  IN CHOOSE e \in ends : \A f \in ends : f <= e

\* C19: a flowing session becomes complete at the first tick at which the
\* clock is >= lastNoteEnd + 1.0 s, lastNoteEnd being the latest end time over
\* all reference notes, and never at a smaller clock value; at that tick every
\* note still unmatched is logged as a miss before the status changes.
C19_FlowingCompletion ==
  [][ /\ (statusRef = "flowing" /\ statusRef' = "complete") =>
           /\ practiceTimeRef' >= lastNoteEnd + FLOWING_TAIL_MS
           /\ \A i \in NoteIndices : i \in flowingMatchedRef' \cup flowingMissedRef'
      /\ (statusRef = "flowing" /\ statusRef' = "flowing" /\ flowingAllNotesRef # << >>
          /\ flowingAllNotesRef' = flowingAllNotesRef) =>
           practiceTimeRef' < lastNoteEnd + FLOWING_TAIL_MS
    ]_vars

\* A press of midi is matched.
MatchedPress(midi) ==
  /\ MidiMessage(NOTE_ON, midi, 100)
  /\ statusRef = "flowing"
  /\ bestMatch(Cur, midi) >= 0

\* How far the clock is from the note the press matches, on the finer scale.
pressOffset(midi) ==
  clockOf(Cur) - toSub(flowingAllNotesRef[bestMatch(Cur, midi) + 1].time)

RatedByThresholds(a, rating) ==
  /\ (rating = "perfect") <=> (Abs(a) <= toSub(FLOWING_PERFECT_MS))
  /\ (rating = "great") <=>
       (toSub(FLOWING_PERFECT_MS) < Abs(a) /\ Abs(a) <= toSub(FLOWING_GREAT_MS))
  /\ (rating = "okay") <=>
       (toSub(FLOWING_GREAT_MS) < Abs(a) /\ Abs(a) <= toSub(FLOWING_OKAY_MS))
  /\ (rating = "poor") <=>
       (toSub(FLOWING_OKAY_MS) < Abs(a) /\ Abs(a) <= toSub(FLOWING_MATCH_WINDOW_MS))

\* C20 as stated: a matched press with absolute offset a is rated perfect
\* iff a <= 50, great iff 50 < a <= 150, okay iff 150 < a <= 300, poor iff
\* 300 < a <= 500, and the logged timingOffsetMs is (clock - startTime) x 1000,
\* negative meaning early.
C20_RatingAndOffset ==
  [][ \A midi \in Pitches :
        MatchedPress(midi) =>
          LET a == pressOffset(midi)
          IN /\ LastEntry'.correct
             /\ RatedByThresholds(a, LastEntry'.rating)
             /\ toSub(LastEntry'.timingOffsetMs[1]) = a ]_vars

\* C20, amended: the thresholds as stated, on the offset as measured; the
\* logged timingOffsetMs is that offset rounded to the nearest whole
\* millisecond (a half rounds up), negative meaning early.
C20_RatingAndRoundedOffset ==
  [][ \A midi \in Pitches :
        MatchedPress(midi) =>
          LET a == pressOffset(midi)
              logged == toSub(LastEntry'.timingOffsetMs[1])
          IN /\ LastEntry'.correct
             /\ RatedByThresholds(a, LastEntry'.rating)
             /\ 2 * Abs(logged - a) <= SubMs
             /\ (2 * Abs(logged - a) = SubMs) => logged > a
             /\ (a <= 0 - SubMs) => logged < 0 ]_vars

\* A press 50.5 ms early was matched: rated great, logged as -50.
C20_Witness ==
  /\ statusRef = "flowing"
  /\ sessionLogRef # << >>
  /\ LastEntry.correct
  /\ LastEntry.rating = "great"
  /\ LastEntry.timingOffsetMs = << 0 - 50 >>
  /\ clockOf(Cur) = toSub(ScoreLate[1].time) - toSub(50) - 1

\* How far the clock is from reference note i, on the finer scale.
distanceTo(i) == Abs(clockOf(Cur) - toSub(flowingAllNotesRef[i + 1].time))

\* Reference notes a press of midi can match now.
Candidates(midi) ==
  { i \in NoteIndices :
      /\ i \notin flowingMatchedRef \cup flowingMissedRef
      /\ flowingAllNotesRef[i + 1].midi = midi
      /\ distanceTo(i) <= toSub(FLOWING_MATCH_WINDOW_MS) }

\* C21: a flowing note-on of pitch p at clock t marks as matched an unmatched,
\* unmissed reference note of pitch p within 500 ms that is closest to t, the
\* earlier one when two are equally close; when such a note exists the press
\* is always matched.
C21_ClosestCandidate ==
  [][ \A midi \in Pitches :
        ( /\ MidiMessage(NOTE_ON, midi, 100)
          /\ statusRef = "flowing"
          /\ Candidates(midi) # {} ) =>
        \E i \in Candidates(midi) :
          /\ flowingMatchedRef' = flowingMatchedRef \cup { i }
          /\ LastEntry'.correct
          /\ LastEntry'.stepIndex = i
          /\ \A j \in Candidates(midi) :
                /\ distanceTo(i) <= distanceTo(j)
                /\ (distanceTo(i) = distanceTo(j)) =>
                     flowingAllNotesRef[i + 1].time <= flowingAllNotesRef[j + 1].time
    ]_vars

\* A press exactly between the two notes was matched to the earlier one.
C21_Witness ==
  /\ statusRef = "flowing"
  /\ flowingAllNotesRef = ScoreClose
  /\ flowingMatchedRef = { 0 }
  /\ flowingMissedRef = {}
  /\ distanceTo(0) = distanceTo(1)
  /\ LastEntry.stepIndex = 0

\* C22: a flowing note-on with no unmatched, unmissed reference note of its
\* pitch within 500 ms appends exactly one entry with correct = false, no
\* rating and no reference note, and leaves the matched set, the missed set,
\* the clock and the status unchanged.
C22_ExtraPress ==
  [][ \A midi \in Pitches :
        ( /\ MidiMessage(NOTE_ON, midi, 100)
          /\ statusRef = "flowing"
          /\ Candidates(midi) = {} ) =>
        /\ Len(sessionLogRef') = Len(sessionLogRef) + 1
        /\ SubSeq(sessionLogRef', 1, Len(sessionLogRef)) = sessionLogRef
        /\ ~LastEntry'.correct
        /\ LastEntry'.rating = "undefined"
        /\ LastEntry'.timingOffsetMs = Undefined
        /\ LastEntry'.stepIndex = 0 - 1
        /\ LastEntry'.expectedMidis = {}
        /\ LastEntry'.playedMidi = midi
        /\ UNCHANGED << flowingMatchedRef, flowingMissedRef, practiceTimeRef,
                        clockFrac, statusRef >>
    ]_vars

\* An extra press has been logged in a running flowing session.
C22_Witness ==
  /\ statusRef = "flowing"
  /\ sessionLogRef # << >>
  /\ LastEntry.stepIndex = 0 - 1
  /\ ~LastEntry.correct
  /\ LastEntry.playedMidi \in heldNotesRef

\* C23: between a start() and the next start() or reset(), every engine step
\* (note-on, note-off, tick, timer, skipStep, togglePause, setMode) leaves the
\* previous log as an unchanged prefix of the new log: entries are appended in
\* the order in which their events are processed.
C23_LogAppendOnly ==
  [][ (sessions' = sessions /\ ~Install(reset(Cur))) =>
        /\ Len(sessionLogRef') >= Len(sessionLogRef)
        /\ SubSeq(sessionLogRef', 1, Len(sessionLogRef)) = sessionLogRef
    ]_vars

\* A press was logged, then a tick logged a miss behind it.
C23_Witness ==
  /\ Len(sessionLogRef) = 2
  /\ sessionLogRef[1].playedMidi \in Pitches
  /\ sessionLogRef[2].rating = "miss"

\* Steps that hold reference note n of the loaded score.
stepsOf(n) ==
  { k \in DOMAIN stepsRef :
      \E m \in DOMAIN stepsRef[k].notes : stepsRef[k].notes[m] = allNotes[n] }

\* The steps on hand are those start() built from the loaded score.
StepsBuilt == stepsRef # << >> /\ stepsRef = buildSteps(allNotes)

\* C24: any two notes whose start times differ by at most 30 ms are placed in
\* the same step.
C24_WithinToleranceSameStep ==
  StepsBuilt =>
    \A i, j \in DOMAIN allNotes :
      Abs(allNotes[i].time - allNotes[j].time) <= CHORD_TOLERANCE_MS =>
        stepsOf(i) = stepsOf(j)

RECURSIVE SumOfGroups(_)
SumOfGroups(steps) ==
  IF steps = << >> THEN 0 ELSE Len(Head(steps).notes) + SumOfGroups(Tail(steps))

\* C25: any two notes whose start times differ by more than 30 ms are placed
\* in different steps, every note belongs to exactly one step, and step times
\* are strictly increasing with the step index.
C25_BeyondToleranceDifferentStep ==
  StepsBuilt =>
    /\ \A i, j \in DOMAIN allNotes :
          Abs(allNotes[i].time - allNotes[j].time) > CHORD_TOLERANCE_MS =>
            stepsOf(i) \cap stepsOf(j) = {}
    /\ \A i \in DOMAIN allNotes : Cardinality(stepsOf(i)) = 1
    /\ SumOfGroups(stepsRef) = Len(allNotes)
    /\ \A k \in DOMAIN stepsRef :
          /\ stepsRef[k].index = k - 1
          /\ k > 1 => stepsRef[k - 1].time < stepsRef[k].time

\* Three notes in two steps: a chord of two, then a note 70 ms later.
C25_Witness ==
  /\ StepsBuilt
  /\ Len(allNotes) = 3
  /\ Len(stepsRef) = 2
  /\ Len(stepsRef[1].notes) = 2
  /\ stepsRef[1].time = 30
  /\ stepsRef[2].time = 100

\* Notes of the score that start before the step's time and end after it.
Spanning(step) ==
  { n \in DOMAIN allNotes :
      /\ allNotes[n].time < step.time
      /\ allNotes[n].time + allNotes[n].duration > step.time }

\* C26: for every step built, requiredPitches contains ownPitches, and every
\* pitch in requiredPitches but not in ownPitches is the pitch of some note
\* that starts before the step's time and ends after it.
C26_RequiredSuperset ==
  StepsBuilt =>
    \A k \in DOMAIN stepsRef :
      /\ stepsRef[k].midis \subseteq stepsRef[k].requiredMidis
      /\ \A p \in stepsRef[k].requiredMidis \ stepsRef[k].midis :
            \E n \in Spanning(stepsRef[k]) : allNotes[n].midi = p

\* A step that requires a pitch it does not own.
C26_Witness ==
  /\ StepsBuilt
  /\ \E k \in DOMAIN stepsRef : stepsRef[k].requiredMidis \ stepsRef[k].midis # {}

\* C27: for every step S and every note that belongs to a step earlier than S
\* and whose startTime + duration extends past S.time + 30 ms, the note's
\* pitch is in S.requiredPitches.
C27_SustainedAlwaysRequired ==
  StepsBuilt =>
    \A k \in DOMAIN stepsRef, n \in DOMAIN allNotes :
      ( /\ \E e \in stepsOf(n) : e < k
        /\ allNotes[n].time + allNotes[n].duration >
             stepsRef[k].time + CHORD_TOLERANCE_MS ) =>
      allNotes[n].midi \in stepsRef[k].requiredMidis

\* C28: between the entry of a step and its exit, satisfaction of the step
\* (by note-on, by the 800 ms re-check, by wrong-note release, or by
\* auto-continue on entry) fires the step's audio cue at most once, and
\* exactly once on the first satisfaction, in discrete and continuous mode.
\* A step is entered once per session, so the count per step is the count per
\* entry.
C28_CueOncePerStep ==
  [][ /\ \A k \in DOMAIN cues' : cues'[k] <= 1
      /\ ( /\ sessions' = sessions
           /\ statusRef' = "sustaining"
           /\ statusRef # "sustaining" \/ stepIndexRef' # stepIndexRef ) =>
         cues'[stepIndexRef' + 1] = 1
      /\ ( /\ sessions' = sessions
           /\ statusRef \in {"playing", "waiting"}
           /\ practiceModeRef = "discrete"
           /\ stepIndexRef' = stepIndexRef + 1
           /\ ~Install(skipStep(Cur)) ) =>
         cues'[stepIndexRef + 1] = 1
    ]_vars

\* A continuous step satisfied, released and satisfied again: one cue.
C28_Witness ==
  /\ practiceModeRef = "continuous"
  /\ ~modeChanged
  /\ statusRef = "sustaining"
  /\ cues[stepIndexRef + 1] = 1
  /\ Len(sessionLogRef) = 2
  /\ sessionLogRef[1].stepIndex = stepIndexRef
  /\ sessionLogRef[1].correct
  /\ sessionLogRef[2].stepIndex = stepIndexRef
  /\ sessionLogRef[2].correct

\* Required pitches of the current step.
requiredNow == requiredOfStep(Cur, stepIndexRef)

\* Every required pitch is in held and none in reartic.
Ready(held, reartic) ==
  /\ requiredNow \subseteq held
  /\ requiredNow \cap reartic = {}

\* The engine has left waiting the way its mode prescribes.
Healed ==
  IF practiceModeRef = "discrete"
  THEN stepIndexRef' = stepIndexRef + 1 /\ statusRef' \in {"playing", "complete"}
  ELSE stepIndexRef' = stepIndexRef /\ statusRef' = "sustaining"

\* C29: from status waiting, an event after which every required pitch of
\* the current step is held (and struck again where needed) makes the engine
\* leave waiting, with no acknowledgement and with the wrong key still down:
\* to the next step in discrete mode, to sustaining in continuous mode; when
\* the set is already held, the 800 ms timer or the release of the wrong key
\* alone does it.
C29_WaitingSelfHeals ==
  [][ ( /\ statusRef = "waiting"
        /\ practiceModeRef \in {"discrete", "continuous"}
        /\ stepIndexRef < Len(stepsRef) ) =>
      /\ \A midi \in Pitches :
            ( /\ MidiMessage(NOTE_ON, midi, 100)
              /\ midi \in requiredNow
              /\ Ready(heldNotesRef \cup { midi }, rearticNeededRef \ { midi }) ) =>
            Healed
      /\ \A midi \in Pitches :
            ( /\ MidiMessage(NOTE_OFF, midi, 0) \/ MidiMessage(NOTE_ON, midi, 0)
              /\ Ready(heldNotesRef \ { midi }, rearticNeededRef) ) =>
            Healed
      /\ (WrongNoteTimeout /\ Ready(heldNotesRef, rearticNeededRef)) => Healed
    ]_vars

\* Continuous mode: a wrong key struck while sustaining is still down, no key
\* has moved since, and the engine is sustaining again: the timer healed it.
C29_Witness ==
  /\ practiceModeRef = "continuous"
  /\ ~modeChanged
  /\ statusRef = "sustaining"
  /\ sessionLogRef # << >>
  /\ ~LastEntry.correct
  /\ LastEntry.playedMidi \in heldNotesRef
  /\ LastEntry.stepIndex = stepIndexRef
  /\ wrongTimers = << >>

\* Some device message is processed in this step.
MessageProcessed ==
  \E type \in {NOTE_ON, NOTE_OFF}, midi \in Pitches, velocity \in Velocities :
    MidiMessage(type, midi, velocity)

\* C30: at every moment at most one input device has the message handler
\* attached; when the active device changes, the old device loses the handler
\* before the new one gets it, so no message is processed by the handler of a
\* device that is not the active one.
C30_ListenerSwap ==
  /\ [](Cardinality(listeners) <= 1 /\ listeners \subseteq { activeDevice })
  /\ [][ MessageProcessed => listeners \cap midiDevices = { activeDevice } ]_vars

\* The player changed the active device from the first one listed to the
\* other, and a key of the new one is down.
C30_Witness ==
  /\ midiDevices = Devices
  /\ activeDevice = "d2"
  /\ listeners = { "d2" }
  /\ statusRef = "flowing"
  /\ heldNotesRef # {}

\* Own pitches the current step shares with the step before it.
repeatedNow ==
  IF stepIndexRef > 0 /\ stepIndexRef < Len(stepsRef)
  THEN stepsRef[stepIndexRef + 1].midis \cap stepsRef[stepIndexRef].midis
  ELSE {}

\* The engine stays on its step, in the same session.
SameStep ==
  /\ sessions' = sessions
  /\ stepsRef' = stepsRef
  /\ stepIndexRef' = stepIndexRef
  /\ statusRef' # "idle"

\* C31: when step k+1 is entered in continuous mode, every pitch in the own
\* pitches of both step k and step k+1 is put in the re-articulation set; at
\* step k+1 only a note-on of the pitch takes it out (a note-off leaves it
\* in); and while the set holds a required pitch the step is not sustaining,
\* neither by auto-continue on entry nor through checkAndResume.
C31_RepeatedNotes ==
  /\ []( ( /\ practiceModeRef = "continuous"
           /\ statusRef = "sustaining"
           /\ stepIndexRef < Len(stepsRef) ) =>
         rearticNeededRef \cap requiredNow = {} )
  /\ [][ /\ ( /\ practiceModeRef = "continuous"
              /\ sessions' = sessions
              /\ stepsRef' = stepsRef
              /\ stepIndexRef' = stepIndexRef + 1
              /\ stepIndexRef' < Len(stepsRef) ) =>
            /\ rearticNeededRef' = repeatedNow'
            /\ repeatedNow' # {} => statusRef' = "playing"
         /\ SameStep =>
              \A m \in rearticNeededRef \ rearticNeededRef' :
                 MidiMessage(NOTE_ON, m, 100)
         /\ \A type \in { NOTE_ON, NOTE_OFF }, m \in rearticNeededRef :
              (MidiMessage(type, m, 0) /\ SameStep) => m \in rearticNeededRef'
       ]_vars

\* Step 1 repeats the pitch of step 0: it was entered with the key still
\* down, every required key is down, and the step waits for the note-on.
C31_Witness ==
  /\ practiceModeRef = "continuous"
  /\ ~modeChanged
  /\ statusRef = "playing"
  /\ stepIndexRef = 1
  /\ repeatedNow = { 60 }
  /\ rearticNeededRef = { 60 }
  /\ requiredNow \subseteq heldNotesRef
  /\ practiceTimeRef = stepsRef[2].time
  /\ cues[1] = 1
  /\ Len(sessionLogRef) = 1
  /\ LastEntry.correct
  /\ now - sustainBaseWallRef >= stepsRef[2].time - stepsRef[1].time

\* The step after the current one, and what it requires.
nextStep == stepsRef[stepIndexRef + 2]

nextRequired == requiredOfStep(Cur, stepIndexRef + 1)

\* Every required pitch of the next step is held and none of them is an own
\* pitch of both the current and the next step.
nextReady ==
  /\ nextRequired \subseteq heldNotesRef
  /\ nextRequired \cap (nextStep.midis \cap stepsRef[stepIndexRef + 1].midis) = {}

\* A tick of the sustain loop on a non-final step of a continuous session.
BoundaryTick ==
  /\ SustainTick
  /\ practiceModeRef = "continuous"
  /\ statusRef = "sustaining"
  /\ stepIndexRef + 1 < Len(stepsRef)

\* C32: while sustaining on a non-final step, the first tick at which the
\* sustain clock is >= the next step's time enters the next step (index + 1,
\* clock set to that step's time, satisfied set recomputed), and no earlier
\* tick does; the engine stays sustaining iff every required pitch of the
\* new step is held and none needs re-articulation, otherwise the status
\* becomes playing and the clock stops.
C32_StepBoundary ==
  [][ /\ (BoundaryTick /\ sustainNewTime(Cur) >= nextStep.time) =>
           /\ stepIndexRef' = stepIndexRef + 1
           /\ currentStepIndex' = stepIndexRef + 1
           /\ practiceTimeRef' = nextStep.time
           /\ clockFrac' = 0
           /\ IF nextReady
              THEN /\ statusRef' = "sustaining"
                   /\ satisfiedRef' = nextRequired
                   /\ sustainAnimRef'
                   /\ sustainBaseWallRef' = now
                   /\ sustainBasePracticeRef' = nextStep.time
              ELSE /\ statusRef' = "playing"
                   /\ satisfiedRef' = {}
                   /\ ~sustainAnimRef'
      /\ (BoundaryTick /\ sustainNewTime(Cur) < nextStep.time) =>
           /\ stepIndexRef' = stepIndexRef
           /\ currentStepIndex' = currentStepIndex
           /\ statusRef' = "sustaining"
           /\ practiceTimeRef' = sustainNewTime(Cur)
    ]_vars

\* Step 1 was entered by the tick with its key already down and went on
\* sustaining: no press was ever logged against it.
C32_Witness ==
  /\ practiceModeRef = "continuous"
  /\ ~modeChanged
  /\ statusRef = "sustaining"
  /\ stepIndexRef = 1
  /\ satisfiedRef = requiredNow
  /\ requiredNow \subseteq heldNotesRef
  /\ cues[1] = 1
  /\ cues[2] = 1
  /\ ~showSkipButton
  /\ sessionLogRef # << >>
  /\ \A k \in DOMAIN sessionLogRef : sessionLogRef[k].stepIndex = 0
  /\ sustainBaseWallRef = now
  /\ now >= stepsRef[2].time - stepsRef[1].time
  /\ practiceTimeRef = stepsRef[2].time
  /\ ~frameDue
  /\ sustainAnimRef

\* Where the sustain clock of the final step ends.
finalLimit ==
  stepsRef[stepIndexRef + 1].time
    + Max(MIN_EFFECTIVE_DURATION_MS, stepsRef[stepIndexRef + 1].maxDuration)

\* A continuous session sustains its last step.
FinalSustaining ==
  /\ practiceModeRef = "continuous"
  /\ statusRef = "sustaining"
  /\ stepIndexRef + 1 = Len(stepsRef)

\* The requested frame of the sustain loop runs, at the wall-clock time of
\* the next state.
TickRuns ==
  /\ sustainAnimRef
  /\ Install(sustainTick([ Cur EXCEPT !.now = now', !.frameDue = FALSE ]))

\* The sustain clock as that frame computes it.
tickClock == sustainBasePracticeRef + scaled(Cur, now' - sustainBaseWallRef)

\* C33: while sustaining on the last step, the status becomes complete at the
\* first tick at which the clock is >= step.time + max(0.3 s, maxDuration of
\* the step) and at no earlier tick or other event of the engine (skipStep
\* aside); releasing a required pitch before that point returns to playing
\* with the clock stopped, and from there nothing but skipStep completes.
C33_FinalStep ==
  [][ /\ (FinalSustaining /\ TickRuns) =>
           /\ practiceTimeRef' = tickClock
           /\ statusRef' = IF tickClock >= finalLimit THEN "complete" ELSE "sustaining"
      /\ (FinalSustaining /\ statusRef' = "complete" /\ ~Install(skipStep(Cur))) =>
           (TickRuns /\ practiceTimeRef' >= finalLimit)
      /\ \A type \in { NOTE_ON, NOTE_OFF }, midi \in Pitches :
           ( /\ FinalSustaining
             /\ midi \in requiredNow
             /\ MidiMessage(type, midi, 0) ) =>
           /\ statusRef' = "playing"
           /\ practiceTimeRef' = practiceTimeRef
           /\ ~sustainAnimRef'
      /\ ( /\ practiceModeRef = "continuous"
           /\ statusRef \in { "playing", "waiting" }
           /\ statusRef' = "complete" ) =>
           Install(skipStep(Cur))
    ]_vars

\* The 200 ms note was held until the sustain clock stood at 300 ms, and the
\* tick that read 300 ms completed the session.
C33_Witness ==
  /\ practiceModeRef = "continuous"
  /\ ~modeChanged
  /\ statusRef = "complete"
  /\ stepsRef # << >>
  /\ stepIndexRef = Len(stepsRef) - 1
  /\ currentStepIndex = Len(stepsRef)
  /\ practiceTimeRef = finalLimit
  /\ stepsRef[stepIndexRef + 1].maxDuration < MIN_EFFECTIVE_DURATION_MS
  /\ Len(sessionLogRef) = 2
  /\ now > practiceTimeRef

\* A step of a session is entered: by goToStep, or by start() for step 0.
StepEntered ==
  /\ stepIndexRef' # stepIndexRef \/ sessions' # sessions
  /\ stepIndexRef' < Len(stepsRef')
  /\ practiceTimeRef' = stepsRef'[stepIndexRef' + 1].time

\* C34: in discrete and continuous modes (no flowing session running), and
\* short of reset(), the practice clock changes only by a tick while the
\* status is sustaining or by entry into a step, which sets it to that
\* step's time; so in playing or waiting no note-on, note-off, tick or timer
\* changes it short of entering a step; and a wrong note during sustaining
\* leaves the clock where it is and cancels the sustain loop.
C34_ClockWriters ==
  [][ ( /\ practiceModeRef \in { "discrete", "continuous" }
        /\ statusRef \notin { "flowing", "paused" } ) =>
      /\ ( /\ << practiceTimeRef, clockFrac >>' # << practiceTimeRef, clockFrac >>
           /\ ~Install(reset(Cur)) ) =>
           \/ statusRef = "sustaining" /\ TickRuns
           \/ StepEntered
      /\ \A midi \in Pitches :
           ( /\ MidiMessage(NOTE_ON, midi, 100)
             /\ statusRef = "sustaining"
             /\ stepIndexRef < Len(stepsRef)
             /\ midi \notin requiredNow ) =>
           /\ statusRef' = "waiting"
           /\ practiceTimeRef' = practiceTimeRef
           /\ ~sustainAnimRef'
    ]_vars

\* A wrong note stopped the sustain clock in mid-step and wall-clock time has
\* gone on since.
C34_Witness ==
  /\ practiceModeRef = "continuous"
  /\ ~modeChanged
  /\ statusRef = "waiting"
  /\ wrongNote # NoNote
  /\ practiceTimeRef > stepsRef[stepIndexRef + 1].time
  /\ ~sustainAnimRef
  /\ now - sustainBaseWallRef > practiceTimeRef - sustainBasePracticeRef

\* What the player sees of a session.
sessionView ==
  << statusRef, currentStepIndex, practiceTimeRef, clockFrac, sessionLogRef >>

\* C35: while the status is idle or complete, device messages, animation
\* ticks, pending timers, skipStep() and togglePause() (every step of the
\* engine that is not start() or reset()) change neither the status, the
\* current step index, the practice clock nor the session log; so only
\* start() or reset() leaves these statuses.
C35_IdleCompleteInert ==
  [][ ( /\ statusRef \in { "idle", "complete" }
        /\ ~Install(start(Cur))
        /\ ~Install(reset(Cur)) ) =>
      UNCHANGED sessionView ]_vars

\* A continuous session was completed by the sustain loop with a key down,
\* and skipStep() was called on the complete session: the step index ran
\* past the end, and the session shows what it showed.
C35_Witness ==
  /\ statusRef = "complete"
  /\ stepsRef # << >>
  /\ stepIndexRef = Len(stepsRef)
  /\ currentStepIndex = Len(stepsRef)
  /\ practiceTimeRef >= stepsRef[Len(stepsRef)].time
                          + Max(MIN_EFFECTIVE_DURATION_MS, stepsRef[Len(stepsRef)].maxDuration)
  /\ heldNotesRef # {}
  /\ sessionLogRef # << >>

\* The step the player is shown.
shownStep == stepsRef[currentStepIndex + 1]

\* C36: in a continuous-mode session, in every state with status playing,
\* waiting or sustaining, the practice clock is inside the current step:
\* steps[currentStepIndex].time <= practiceClock, and practiceClock is below
\* the next step's time, or for the final step below step.time + max(0.3 s,
\* maxDuration).
C36_ClockInsideStep ==
  (practiceModeRef = "continuous" /\ statusRef \in StepStatuses) =>
     /\ currentStepIndex < Len(stepsRef)
     /\ shownStep.time <= practiceTimeRef
     /\ IF currentStepIndex + 1 < Len(stepsRef)
        THEN practiceTimeRef < stepsRef[currentStepIndex + 2].time
        ELSE practiceTimeRef
               < shownStep.time + Max(MIN_EFFECTIVE_DURATION_MS, shownStep.maxDuration)

\* The sustain clock stands in mid-step, one frame short of the next step.
C36_Witness ==
  /\ practiceModeRef = "continuous"
  /\ ~modeChanged
  /\ statusRef = "sustaining"
  /\ currentStepIndex + 1 < Len(stepsRef)
  /\ shownStep.time < practiceTimeRef
  /\ practiceTimeRef + Frame >= stepsRef[currentStepIndex + 2].time

\* C37: in a flowing session start() sets the clock to max(0, firstNoteStart
\* - 2 s), and from there until complete no step of the engine lowers the
\* practice clock: no tick, no pause or resume, no change of the
\* playback-speed multiplier made while the session is running and no tick
\* that follows such a change.
C37_FlowingClockMonotonic ==
  [][ /\ ( /\ Install(start(Cur))
           /\ statusRef' = "flowing" ) =>
           /\ clockFrac' = 0
           /\ practiceTimeRef'
                = Max(0, SortNotes(allNotes, FALSE)[1].time - FLOWING_LEAD_IN_MS)
      /\ ( /\ statusRef \in { "flowing", "paused" }
           /\ statusRef' \in { "flowing", "paused", "complete" }
           /\ sessions' = sessions ) =>
           clockOf(Cur)' >= clockOf(Cur)
    ]_vars

\* Reference notes that are neither matched nor missed.
OpenNotes == NoteIndices \ (flowingMatchedRef \cup flowingMissedRef)

\* C38: in a running flowing session, after every tick (and so at every
\* moment, the clock moving only at ticks) each reference note that is
\* neither matched nor missed has startTime >= clock - 500 ms; hence a
\* note-on of the pitch of such a note that is already due, processed before
\* the next tick, is matched: no note is out of reach of a press without
\* being logged as a miss, and a press exactly 500 ms late still matches.
C38_NoJudgementGap ==
  /\ []( (InFlowingSession /\ statusRef \in { "flowing", "paused" }) =>
           \A i \in OpenNotes :
              toSub(flowingAllNotesRef[i + 1].time)
                >= clockOf(Cur) - toSub(FLOWING_MATCH_WINDOW_MS) )
  /\ [][ \A midi \in Pitches :
           ( /\ MidiMessage(NOTE_ON, midi, 100)
             /\ InFlowingSession
             /\ statusRef = "flowing"
             /\ \E i \in OpenNotes :
                   /\ flowingAllNotesRef[i + 1].midi = midi
                   /\ toSub(flowingAllNotesRef[i + 1].time) <= clockOf(Cur) ) =>
           /\ LastEntry'.correct
           /\ LastEntry'.playedMidi = midi
           /\ Cardinality(flowingMatchedRef') = Cardinality(flowingMatchedRef) + 1
       ]_vars

\* A press exactly 500 ms late was matched, and rated poor.
C38_Witness ==
  /\ InFlowingSession
  /\ statusRef = "flowing"
  /\ sessionLogRef # << >>
  /\ LastEntry.correct
  /\ LastEntry.timingOffsetMs = << FLOWING_MATCH_WINDOW_MS >>
  /\ LastEntry.rating = "poor"
  /\ LastEntry.stepIndex \in flowingMatchedRef

\* C39: in a discrete or continuous session whose mode was not changed after
\* start(), in every state in which the engine is on a step, the satisfied
\* set is a subset of the required set of the current step and a subset of
\* the held set.
C39_SatisfiedBookkeeping ==
  ( /\ practiceModeRef \in { "discrete", "continuous" }
    /\ ~modeChanged
    /\ statusRef \in StepStatuses ) =>
  /\ stepIndexRef < Len(stepsRef)
  /\ satisfiedRef \subseteq requiredNow
  /\ satisfiedRef \subseteq heldNotesRef

\* One key of a chord of two is down and counted; the other is still awaited.
C39_Witness ==
  /\ practiceModeRef \in { "discrete", "continuous" }
  /\ ~modeChanged
  /\ statusRef = "playing"
  /\ Cardinality(requiredNow) = 2
  /\ Cardinality(satisfiedRef) = 1
  /\ satisfiedRef \subseteq heldNotesRef
  /\ ~(requiredNow \subseteq heldNotesRef)

\* C40: a started flowing session that is not reset and is not left paused
\* for ever reaches status complete, under fair scheduling of the ticks,
\* whatever note-on and note-off messages arrive, none at all included.
C40_FlowingTermination ==
  (statusRef \in { "flowing", "paused" }) ~> (statusRef = "complete")

\* A session that was paused and resumed on its way is complete, no press
\* having matched any of its notes.
C40_Witness ==
  /\ InFlowingSession
  /\ statusRef = "complete"
  /\ flowingStartWallRef > 0
  /\ flowingStartOffsetRef > 0
  /\ flowingMatchedRef = {}
  /\ flowingMissedRef = NoteIndices

====
